---- MODULE Spec2Model ----
(***************************************************************************)
(* spreadsheet-brain backend: the /query request handler (main.py), the    *)
(* query understanding pipeline (query_processor.py, tagging.py) and the   *)
(* result aggregation, as a state machine.                                 *)
(*                                                                         *)
(* Python values: str is a TLA+ string, list a sequence, an insertion      *)
(* ordered dict a sequence of [key, value] records (dict with fixed keys:  *)
(* a record), a float that is the quotient of two ints a reduced fraction  *)
(* <<num, den>>.                                                           *)
(***************************************************************************)
EXTENDS Integers, Sequences, FiniteSets, TLC

(***************************************************************************)
(* Strings.  Python str values are TLA+ strings; the operators below are   *)
(* the str operations the source uses (len, slicing, lower, in, replace,   *)
(* split/join).  Positions are 1-based, as for SubSeq.                     *)
(***************************************************************************)
Chars(str) == { SubSeq(str, i, i) : i \in 1..Len(str) }

CharAt(s, i) == SubSeq(s, i, i)

ascii_lowercase == "abcdefghijklmnopqrstuvwxyz"
ascii_uppercase == "ABCDEFGHIJKLMNOPQRSTUVWXYZ"
digits == "0123456789"

\* str.lower() of one character
LowerChar(c) ==
  IF \E i \in 1..Len(ascii_uppercase) : CharAt(ascii_uppercase, i) = c
  THEN LET i == CHOOSE j \in 1..Len(ascii_uppercase) : CharAt(ascii_uppercase, j) = c
       IN  CharAt(ascii_lowercase, i)
  ELSE c

RECURSIVE Lower(_)
\* str.lower()
Lower(s) == IF s = "" THEN "" ELSE LowerChar(Head(s)) \o Lower(Tail(s))

\* s.startswith(sub) at offset i (i characters already consumed)
StartsAt(s, sub, i) ==
  /\ i + Len(sub) <= Len(s)
  /\ SubSeq(s, i + 1, i + Len(sub)) = sub

\* `sub in s` on str
Contains(s, sub) == \E i \in 0..Len(s) : StartsAt(s, sub, i)

RECURSIVE ReplaceFrom(_, _, _, _)
ReplaceFrom(s, old, new, i) ==
  IF i >= Len(s) THEN ""
  ELSE IF StartsAt(s, old, i) THEN new \o ReplaceFrom(s, old, new, i + Len(old))
  ELSE CharAt(s, i + 1) \o ReplaceFrom(s, old, new, i + 1)

\* s.replace(old, new): every non-overlapping occurrence, left to right
\* (old is never empty in the source's calls)
Replace(s, old, new) == ReplaceFrom(s, old, new, 0)

(***************************************************************************)
(* Regular expressions.  A pattern of the source is written as its syntax  *)
(* tree; each table entry below quotes the source pattern in a comment.    *)
(* Ends(re, s, i) is the set of offsets at which a match of re that starts *)
(* at offset i can end, so Search is re.search(...) is not None.  The      *)
(* source always matches lowercased text against lowercase patterns, so    *)
(* re.IGNORECASE changes nothing.                                          *)
(***************************************************************************)
Lit(str) == <<"lit", str>>
Alt(res) == <<"alt", res>>
Cat(res) == <<"cat", res>>
Rep(re, lo, hi) == <<"rep", re, lo, hi>>
Opt(re) == <<"rep", re, 0, 1>>
Plus(re) == <<"rep", re, 1, -1>>
Star(re) == <<"rep", re, 0, -1>>
OneOf(str) == <<"in", Chars(str)>>
WB == <<"wb">>
AnyChar == <<"any">>
\* $: the end of the string, or just before a newline that ends it
EndOfString == <<"eos">>
WordChars == Chars(ascii_lowercase) \cup Chars(ascii_uppercase) \cup Chars(digits) \cup {"_"}
SpaceChars == {" ", "\t", "\n", "\r", "\f"}
WordCh == <<"in", WordChars>>
Digit == <<"in", Chars(digits)>>
Space == <<"in", SpaceChars>>

\* \b at offset i: exactly one side is a word character
AtBoundary(s, i) ==
  (i >= 1 /\ CharAt(s, i) \in WordChars) # (i < Len(s) /\ CharAt(s, i + 1) \in WordChars)

RECURSIVE Ends(_, _, _)
RECURSIVE CatEnds(_, _, _, _)
RECURSIVE RepEnds(_, _, _, _, _, _)

Ends(re, s, i) ==
  CASE re[1] = "lit" -> IF StartsAt(s, re[2], i) THEN {i + Len(re[2])} ELSE {}
    [] re[1] = "in"  -> IF i < Len(s) /\ CharAt(s, i + 1) \in re[2] THEN {i + 1} ELSE {}
    [] re[1] = "any" -> IF i < Len(s) /\ CharAt(s, i + 1) # "\n" THEN {i + 1} ELSE {}
    [] re[1] = "wb"  -> IF AtBoundary(s, i) THEN {i} ELSE {}
    [] re[1] = "eos" -> IF i = Len(s) \/ (i = Len(s) - 1 /\ CharAt(s, i + 1) = "\n")
                        THEN {i} ELSE {}
    [] re[1] = "alt" -> UNION { Ends(re[2][n], s, i) : n \in 1..Len(re[2]) }
    [] re[1] = "cat" -> CatEnds(re[2], 1, s, {i})
    [] re[1] = "rep" -> RepEnds(re[2], re[3], re[4], s, {i}, 0)

\* the items res[n..] matched one after the other, starting from any offset of `from`
CatEnds(res, n, s, from) ==
  IF n > Len(res) \/ from = {} THEN from
  ELSE CatEnds(res, n + 1, s, UNION { Ends(res[n], s, j) : j \in from })

\* `from` are the offsets reached after exactly n repetitions; hi < 0 is unbounded
RepEnds(re, lo, hi, s, from, n) ==
  LET here == IF n >= lo THEN from ELSE {}
  IN  IF from = {} \/ (hi >= 0 /\ n >= hi) \/ n > Len(s) THEN here
      ELSE here \cup RepEnds(re, lo, hi, s, UNION { Ends(re, s, j) : j \in from }, n + 1)

\* re.search(pattern, s) is not None
Search(re, s) == \E i \in 0..Len(s) : Ends(re, s, i) # {}

(***************************************************************************)
(* Lexicon tables of tagging.py and the pattern lists of QueryProcessor.   *)
(* Each dict is the sequence of its entries in declaration order.          *)
(***************************************************************************)
BUSINESS_TERMS ==
  <<
    [ name |-> "profitability",
      primary |-> <<"profit", "margin", "ebitda", "ebit", "earnings", "net income", "operating income">>,
      synonyms |-> <<"bottom line", "profitability", "margins", "net profit", "gross profit", "operating profit">>,
      patterns |-> <<
        (* \bprofit\b *)
        Cat(<<WB, Lit("profit"), WB>>),
        (* \bmargin\b *)
        Cat(<<WB, Lit("margin"), WB>>),
        (* \bearnings\b *)
        Cat(<<WB, Lit("earnings"), WB>>),
        (* \bebitda\b *)
        Cat(<<WB, Lit("ebitda"), WB>>)
      >>
    ],
    [ name |-> "revenue",
      primary |-> <<"revenue", "sales", "income", "receipts", "turnover">>,
      synonyms |-> <<"top line", "gross sales", "net sales", "total sales", "sales revenue">>,
      patterns |-> <<
        (* \brevenue\b *)
        Cat(<<WB, Lit("revenue"), WB>>),
        (* \bsales\b *)
        Cat(<<WB, Lit("sales"), WB>>),
        (* \bincome\b *)
        Cat(<<WB, Lit("income"), WB>>),
        (* \bturnover\b *)
        Cat(<<WB, Lit("turnover"), WB>>)
      >>
    ],
    [ name |-> "cost",
      primary |-> <<"cost", "expense", "expenditure", "overhead", "opex", "capex">>,
      synonyms |-> <<"costs", "expenses", "spending", "outlay", "outgoing", "cogs">>,
      patterns |-> <<
        (* \bcost\b *)
        Cat(<<WB, Lit("cost"), WB>>),
        (* \bexpense\b *)
        Cat(<<WB, Lit("expense"), WB>>),
        (* \boverhead\b *)
        Cat(<<WB, Lit("overhead"), WB>>),
        (* \bcogs\b *)
        Cat(<<WB, Lit("cogs"), WB>>)
      >>
    ],
    [ name |-> "growth",
      primary |-> <<"growth", "increase", "expansion", "rise">>,
      synonyms |-> <<"yoy", "qoq", "mom", "cagr", "change", "variance", "delta">>,
      patterns |-> <<
        (* \bgrowth\b *)
        Cat(<<WB, Lit("growth"), WB>>),
        (* \byoy\b *)
        Cat(<<WB, Lit("yoy"), WB>>),
        (* \bqoq\b *)
        Cat(<<WB, Lit("qoq"), WB>>),
        (* \bcagr\b *)
        Cat(<<WB, Lit("cagr"), WB>>),
        (* %\s*change *)
        Cat(<<Lit("%"), Star(Space), Lit("change")>>)
      >>
    ],
    [ name |-> "efficiency",
      primary |-> <<"efficiency", "productivity", "utilization", "performance">>,
      synonyms |-> <<"roi", "roe", "roa", "roic", "turnover", "ratio", "yield">>,
      patterns |-> <<
        (* \broi\b *)
        Cat(<<WB, Lit("roi"), WB>>),
        (* \broe\b *)
        Cat(<<WB, Lit("roe"), WB>>),
        (* \broa\b *)
        Cat(<<WB, Lit("roa"), WB>>),
        (* \bturnover\b *)
        Cat(<<WB, Lit("turnover"), WB>>),
        (* \bratio\b *)
        Cat(<<WB, Lit("ratio"), WB>>)
      >>
    ],
    [ name |-> "liquidity",
      primary |-> <<"cash", "liquidity", "working capital", "current ratio">>,
      synonyms |-> <<"cash flow", "liquid assets", "quick ratio", "cash position">>,
      patterns |-> <<
        (* \bcash\b *)
        Cat(<<WB, Lit("cash"), WB>>),
        (* \bliquidity\b *)
        Cat(<<WB, Lit("liquidity"), WB>>),
        (* working\s+capital *)
        Cat(<<Lit("working"), Plus(Space), Lit("capital")>>)
      >>
    ],
    [ name |-> "leverage",
      primary |-> <<"debt", "leverage", "liability", "borrowing">>,
      synonyms |-> <<"debt ratio", "debt to equity", "gearing", "financial leverage">>,
      patterns |-> <<
        (* \bdebt\b *)
        Cat(<<WB, Lit("debt"), WB>>),
        (* \bleverage\b *)
        Cat(<<WB, Lit("leverage"), WB>>),
        (* debt\s+to\s+equity *)
        Cat(<<Lit("debt"), Plus(Space), Lit("to"), Plus(Space), Lit("equity")>>)
      >>
    ],
    [ name |-> "investment",
      primary |-> <<"investment", "asset", "portfolio", "securities", "stocks", "bonds">>,
      synonyms |-> <<"holdings", "investments", "capital allocation", "investment portfolio">>,
      patterns |-> <<
        (* \binvestment\b *)
        Cat(<<WB, Lit("investment"), WB>>),
        (* \basset\b *)
        Cat(<<WB, Lit("asset"), WB>>),
        (* \bportfolio\b *)
        Cat(<<WB, Lit("portfolio"), WB>>),
        (* \bsecurities\b *)
        Cat(<<WB, Lit("securities"), WB>>)
      >>
    ],
    [ name |-> "budgeting",
      primary |-> <<"budget", "forecast", "plan", "target", "allocation">>,
      synonyms |-> <<"budgeted", "planned", "projected", "estimated", "allocated">>,
      patterns |-> <<
        (* \bbudget\b *)
        Cat(<<WB, Lit("budget"), WB>>),
        (* \bforecast\b *)
        Cat(<<WB, Lit("forecast"), WB>>),
        (* \bplan\b *)
        Cat(<<WB, Lit("plan"), WB>>),
        (* \btarget\b *)
        Cat(<<WB, Lit("target"), WB>>)
      >>
    ],
    [ name |-> "variance",
      primary |-> <<"variance", "deviation", "difference", "gap", "variance analysis">>,
      synonyms |-> <<"vs actual", "over budget", "under budget", "favorable", "unfavorable">>,
      patterns |-> <<
        (* \bvariance\b *)
        Cat(<<WB, Lit("variance"), WB>>),
        (* \bdeviation\b *)
        Cat(<<WB, Lit("deviation"), WB>>),
        (* \bvs\s+actual\b *)
        Cat(<<WB, Lit("vs"), Plus(Space), Lit("actual"), WB>>),
        (* \bover\s+budget\b *)
        Cat(<<WB, Lit("over"), Plus(Space), Lit("budget"), WB>>)
      >>
    ],
    [ name |-> "valuation",
      primary |-> <<"valuation", "value", "worth", "market cap", "enterprise value">>,
      synonyms |-> <<"fair value", "market value", "book value", "intrinsic value">>,
      patterns |-> <<
        (* \bvaluation\b *)
        Cat(<<WB, Lit("valuation"), WB>>),
        (* \bmarket\s+cap\b *)
        Cat(<<WB, Lit("market"), Plus(Space), Lit("cap"), WB>>),
        (* \benterprise\s+value\b *)
        Cat(<<WB, Lit("enterprise"), Plus(Space), Lit("value"), WB>>)
      >>
    ],
    [ name |-> "tax",
      primary |-> <<"tax", "taxes", "tax expense", "tax rate", "tax burden">>,
      synonyms |-> <<"taxation", "tax liability", "tax benefit", "deferred tax">>,
      patterns |-> <<
        (* \btax\b *)
        Cat(<<WB, Lit("tax"), WB>>),
        (* \btaxes\b *)
        Cat(<<WB, Lit("taxes"), WB>>),
        (* \btax\s+expense\b *)
        Cat(<<WB, Lit("tax"), Plus(Space), Lit("expense"), WB>>),
        (* \btax\s+rate\b *)
        Cat(<<WB, Lit("tax"), Plus(Space), Lit("rate"), WB>>)
      >>
    ]
  >>

FINANCIAL_INTENT_PATTERNS ==
  <<
    [ name |-> "spending_analysis",
      patterns |-> <<
        (* \b(total|sum|amount)\s+(spent|expenses?|costs?)\b *)
        Cat(<<WB, Alt(<<Lit("total"), Lit("sum"), Lit("amount")>>), Plus(Space), Alt(<<Lit("spent"), Cat(<<Lit("expense"), Opt(Lit("s"))>>), Cat(<<Lit("cost"), Opt(Lit("s"))>>)>>), WB>>),
        (* \bhow\s+much\s+(did\s+i\s+spend|spent|spending)\b *)
        Cat(<<WB, Lit("how"), Plus(Space), Lit("much"), Plus(Space), Alt(<<Cat(<<Lit("did"), Plus(Space), Lit("i"), Plus(Space), Lit("spend")>>), Lit("spent"), Lit("spending")>>), WB>>),
        (* \bspending\s+(analysis|breakdown|summary)\b *)
        Cat(<<WB, Lit("spending"), Plus(Space), Alt(<<Lit("analysis"), Lit("breakdown"), Lit("summary")>>), WB>>),
        (* \bexpense\s+(report|analysis|breakdown)\b *)
        Cat(<<WB, Lit("expense"), Plus(Space), Alt(<<Lit("report"), Lit("analysis"), Lit("breakdown")>>), WB>>)
      >>,
      keywords |-> <<"spent", "spending", "expenses", "expenditure", "outflow">>
    ],
    [ name |-> "budgeting",
      patterns |-> <<
        (* \b(budget|budgeted|planned)\s+(vs|versus|compared\s+to)\s+(actual|spent)\b *)
        Cat(<<WB, Alt(<<Lit("budget"), Lit("budgeted"), Lit("planned")>>), Plus(Space), Alt(<<Lit("vs"), Lit("versus"), Cat(<<Lit("compared"), Plus(Space), Lit("to")>>)>>), Plus(Space), Alt(<<Lit("actual"), Lit("spent")>>), WB>>),
        (* \b(over|under)\s+budget\b *)
        Cat(<<WB, Alt(<<Lit("over"), Lit("under")>>), Plus(Space), Lit("budget"), WB>>),
        (* \bbudget\s+(variance|analysis|tracking)\b *)
        Cat(<<WB, Lit("budget"), Plus(Space), Alt(<<Lit("variance"), Lit("analysis"), Lit("tracking")>>), WB>>),
        (* \bhow\s+much\s+(left|remaining)\s+in\s+budget\b *)
        Cat(<<WB, Lit("how"), Plus(Space), Lit("much"), Plus(Space), Alt(<<Lit("left"), Lit("remaining")>>), Plus(Space), Lit("in"), Plus(Space), Lit("budget"), WB>>)
      >>,
      keywords |-> <<"budget", "planned", "allocated", "forecast", "target">>
    ],
    [ name |-> "trend_analysis",
      patterns |-> <<
        (* \b(trend|trends|trending|pattern)\b *)
        Cat(<<WB, Alt(<<Lit("trend"), Lit("trends"), Lit("trending"), Lit("pattern")>>), WB>>),
        (* \b(over\s+time|monthly|quarterly|yearly)\b *)
        Cat(<<WB, Alt(<<Cat(<<Lit("over"), Plus(Space), Lit("time")>>), Lit("monthly"), Lit("quarterly"), Lit("yearly")>>), WB>>),
        (* \b(increase|decrease|growth|decline)\s+(over|in)\b *)
        Cat(<<WB, Alt(<<Lit("increase"), Lit("decrease"), Lit("growth"), Lit("decline")>>), Plus(Space), Alt(<<Lit("over"), Lit("in")>>), WB>>),
        (* \b(compare|comparison)\s+(months|quarters|years)\b *)
        Cat(<<WB, Alt(<<Lit("compare"), Lit("comparison")>>), Plus(Space), Alt(<<Lit("months"), Lit("quarters"), Lit("years")>>), WB>>)
      >>,
      keywords |-> <<"trend", "growth", "change", "increase", "decrease", "pattern">>
    ],
    [ name |-> "category_analysis",
      patterns |-> <<
        (* \b(category|categories|type|types)\s+(breakdown|analysis|summary)\b *)
        Cat(<<WB, Alt(<<Lit("category"), Lit("categories"), Lit("type"), Lit("types")>>), Plus(Space), Alt(<<Lit("breakdown"), Lit("analysis"), Lit("summary")>>), WB>>),
        (* \bspending\s+by\s+category\b *)
        Cat(<<WB, Lit("spending"), Plus(Space), Lit("by"), Plus(Space), Lit("category"), WB>>),
        (* \bhow\s+much\s+(on|for)\s+\w+\b *)
        Cat(<<WB, Lit("how"), Plus(Space), Lit("much"), Plus(Space), Alt(<<Lit("on"), Lit("for")>>), Plus(Space), Plus(WordCh), WB>>),
        (* \b(most|least)\s+expensive\s+category\b *)
        Cat(<<WB, Alt(<<Lit("most"), Lit("least")>>), Plus(Space), Lit("expensive"), Plus(Space), Lit("category"), WB>>)
      >>,
      keywords |-> <<"category", "type", "classification", "breakdown">>
    ],
    [ name |-> "transaction_search",
      patterns |-> <<
        (* \b(find|show|search)\s+(transactions?|payments?|purchases?)\b *)
        Cat(<<WB, Alt(<<Lit("find"), Lit("show"), Lit("search")>>), Plus(Space), Alt(<<Cat(<<Lit("transaction"), Opt(Lit("s"))>>), Cat(<<Lit("payment"), Opt(Lit("s"))>>), Cat(<<Lit("purchase"), Opt(Lit("s"))>>)>>), WB>>),
        (* \btransactions?\s+(for|from|to|with)\b *)
        Cat(<<WB, Lit("transaction"), Opt(Lit("s")), Plus(Space), Alt(<<Lit("for"), Lit("from"), Lit("to"), Lit("with")>>), WB>>),
        (* \b(payments?|purchases?)\s+(made|to|from)\b *)
        Cat(<<WB, Alt(<<Cat(<<Lit("payment"), Opt(Lit("s"))>>), Cat(<<Lit("purchase"), Opt(Lit("s"))>>)>>), Plus(Space), Alt(<<Lit("made"), Lit("to"), Lit("from")>>), WB>>),
        (* \b(specific|particular)\s+transaction\b *)
        Cat(<<WB, Alt(<<Lit("specific"), Lit("particular")>>), Plus(Space), Lit("transaction"), WB>>)
      >>,
      keywords |-> <<"transaction", "payment", "purchase", "transfer", "charge">>
    ],
    [ name |-> "comparison",
      patterns |-> <<
        (* \b(compare|comparison|vs|versus)\b *)
        Cat(<<WB, Alt(<<Lit("compare"), Lit("comparison"), Lit("vs"), Lit("versus")>>), WB>>),
        (* \b(higher|lower|more|less)\s+than\b *)
        Cat(<<WB, Alt(<<Lit("higher"), Lit("lower"), Lit("more"), Lit("less")>>), Plus(Space), Lit("than"), WB>>),
        (* \b(best|worst|highest|lowest)\b *)
        Cat(<<WB, Alt(<<Lit("best"), Lit("worst"), Lit("highest"), Lit("lowest")>>), WB>>),
        (* \b(month|quarter|year)\s+over\s+(month|quarter|year)\b *)
        Cat(<<WB, Alt(<<Lit("month"), Lit("quarter"), Lit("year")>>), Plus(Space), Lit("over"), Plus(Space), Alt(<<Lit("month"), Lit("quarter"), Lit("year")>>), WB>>)
      >>,
      keywords |-> <<"compare", "versus", "higher", "lower", "best", "worst">>
    ]
  >>

TEMPORAL_PATTERNS ==
  <<
    [ name |-> "relative_time",
      patterns |-> <<
        (* \b(last|past|previous)\s+(month|quarter|year|week)\b *)
        Cat(<<WB, Alt(<<Lit("last"), Lit("past"), Lit("previous")>>), Plus(Space), Alt(<<Lit("month"), Lit("quarter"), Lit("year"), Lit("week")>>), WB>>),
        (* \b(this|current)\s+(month|quarter|year|week)\b *)
        Cat(<<WB, Alt(<<Lit("this"), Lit("current")>>), Plus(Space), Alt(<<Lit("month"), Lit("quarter"), Lit("year"), Lit("week")>>), WB>>),
        (* \b(next|upcoming)\s+(month|quarter|year|week)\b *)
        Cat(<<WB, Alt(<<Lit("next"), Lit("upcoming")>>), Plus(Space), Alt(<<Lit("month"), Lit("quarter"), Lit("year"), Lit("week")>>), WB>>),
        (* \b(today|yesterday|tomorrow)\b *)
        Cat(<<WB, Alt(<<Lit("today"), Lit("yesterday"), Lit("tomorrow")>>), WB>>),
        (* \b(\d+)\s+(days?|weeks?|months?|years?)\s+ago\b *)
        Cat(<<WB, Plus(Digit), Plus(Space), Alt(<<Cat(<<Lit("day"), Opt(Lit("s"))>>), Cat(<<Lit("week"), Opt(Lit("s"))>>), Cat(<<Lit("month"), Opt(Lit("s"))>>), Cat(<<Lit("year"), Opt(Lit("s"))>>)>>), Plus(Space), Lit("ago"), WB>>)
      >>
    ],
    [ name |-> "specific_periods",
      patterns |-> <<
        (* \b(january|february|march|april|may|june|july|august|september|october|november|december)\b *)
        Cat(<<WB, Alt(<<Lit("january"), Lit("february"), Lit("march"), Lit("april"), Lit("may"), Lit("june"), Lit("july"), Lit("august"), Lit("september"), Lit("october"), Lit("november"), Lit("december")>>), WB>>),
        (* \b(q[1-4]|quarter\s+[1-4])\b *)
        Cat(<<WB, Alt(<<Cat(<<Lit("q"), OneOf("1234")>>), Cat(<<Lit("quarter"), Plus(Space), OneOf("1234")>>)>>), WB>>),
        (* \b(20\d{2}|19\d{2})\b *)
        Cat(<<WB, Alt(<<Cat(<<Lit("20"), Rep(Digit, 2, 2)>>), Cat(<<Lit("19"), Rep(Digit, 2, 2)>>)>>), WB>>),
        (* \b(\d{1,2})/(\d{1,2})/(\d{2,4})\b *)
        Cat(<<WB, Rep(Digit, 1, 2), Lit("/"), Rep(Digit, 1, 2), Lit("/"), Rep(Digit, 2, 4), WB>>),
        (* \b(\d{1,2})-(\d{1,2})-(\d{2,4})\b *)
        Cat(<<WB, Rep(Digit, 1, 2), Lit("-"), Rep(Digit, 1, 2), Lit("-"), Rep(Digit, 2, 4), WB>>)
      >>
    ],
    [ name |-> "time_ranges",
      patterns |-> <<
        (* \b(from|between)\s+\w+\s+(to|and)\s+\w+\b *)
        Cat(<<WB, Alt(<<Lit("from"), Lit("between")>>), Plus(Space), Plus(WordCh), Plus(Space), Alt(<<Lit("to"), Lit("and")>>), Plus(Space), Plus(WordCh), WB>>),
        (* \b(since|until|before|after)\s+\w+\b *)
        Cat(<<WB, Alt(<<Lit("since"), Lit("until"), Lit("before"), Lit("after")>>), Plus(Space), Plus(WordCh), WB>>),
        (* \b(first|last)\s+(half|quarter)\s+of\b *)
        Cat(<<WB, Alt(<<Lit("first"), Lit("last")>>), Plus(Space), Alt(<<Lit("half"), Lit("quarter")>>), Plus(Space), Lit("of"), WB>>),
        (* \b(ytd|year\s+to\s+date|mtd|month\s+to\s+date)\b *)
        Cat(<<WB, Alt(<<Lit("ytd"), Cat(<<Lit("year"), Plus(Space), Lit("to"), Plus(Space), Lit("date")>>), Lit("mtd"), Cat(<<Lit("month"), Plus(Space), Lit("to"), Plus(Space), Lit("date")>>)>>), WB>>)
      >>
    ]
  >>

conceptual_patterns ==
  <<
    (* \b(find|show|get|search)\s+(all\s+)?(profitability|revenue|cost|growth|efficiency|margin|profit) *)
    Cat(<<WB, Alt(<<Lit("find"), Lit("show"), Lit("get"), Lit("search")>>), Plus(Space), Opt(Cat(<<Lit("all"), Plus(Space)>>)), Alt(<<Lit("profitability"), Lit("revenue"), Lit("cost"), Lit("growth"), Lit("efficiency"), Lit("margin"), Lit("profit")>>)>>),
    (* \b(where\s+are|locate)\s+(my\s+)?(.+\s+)?(metrics|calculations|ratios|analyses) *)
    Cat(<<WB, Alt(<<Cat(<<Lit("where"), Plus(Space), Lit("are")>>), Lit("locate")>>), Plus(Space), Opt(Cat(<<Lit("my"), Plus(Space)>>)), Opt(Cat(<<Plus(AnyChar), Plus(Space)>>)), Alt(<<Lit("metrics"), Lit("calculations"), Lit("ratios"), Lit("analyses")>>)>>),
    (* \b(profitability|revenue|cost|growth|efficiency)\s+(metrics|data|calculations) *)
    Cat(<<WB, Alt(<<Lit("profitability"), Lit("revenue"), Lit("cost"), Lit("growth"), Lit("efficiency")>>), Plus(Space), Alt(<<Lit("metrics"), Lit("data"), Lit("calculations")>>)>>)
  >>

functional_patterns ==
  <<
    (* \b(percentage|average|sum|count|conditional|lookup)\s+(calculations|formulas) *)
    Cat(<<WB, Alt(<<Lit("percentage"), Lit("average"), Lit("sum"), Lit("count"), Lit("conditional"), Lit("lookup")>>), Plus(Space), Alt(<<Lit("calculations"), Lit("formulas")>>)>>),
    (* \b(show|find|get)\s+(formulas|calculations)\s+(that|with) *)
    Cat(<<WB, Alt(<<Lit("show"), Lit("find"), Lit("get")>>), Plus(Space), Alt(<<Lit("formulas"), Lit("calculations")>>), Plus(Space), Alt(<<Lit("that"), Lit("with")>>)>>),
    (* \b(vlookup|index|match|if|sumif|countif|average|sum)\s+(formulas|functions) *)
    Cat(<<WB, Alt(<<Lit("vlookup"), Lit("index"), Lit("match"), Lit("if"), Lit("sumif"), Lit("countif"), Lit("average"), Lit("sum")>>), Plus(Space), Alt(<<Lit("formulas"), Lit("functions")>>)>>)
  >>

comparative_patterns ==
  <<
    (* \b(budget\s+vs\s+actual|actual\s+vs\s+budget) *)
    Cat(<<WB, Alt(<<Cat(<<Lit("budget"), Plus(Space), Lit("vs"), Plus(Space), Lit("actual")>>), Cat(<<Lit("actual"), Plus(Space), Lit("vs"), Plus(Space), Lit("budget")>>)>>)>>),
    (* \b(time\s+series|monthly|quarterly|yearly|historical) *)
    Cat(<<WB, Alt(<<Cat(<<Lit("time"), Plus(Space), Lit("series")>>), Lit("monthly"), Lit("quarterly"), Lit("yearly"), Lit("historical")>>)>>),
    (* \b(compare|comparison|versus|vs|against) *)
    Cat(<<WB, Alt(<<Lit("compare"), Lit("comparison"), Lit("versus"), Lit("vs"), Lit("against")>>)>>),
    (* \b(trend|progression|change\s+over\s+time) *)
    Cat(<<WB, Alt(<<Lit("trend"), Lit("progression"), Cat(<<Lit("change"), Plus(Space), Lit("over"), Plus(Space), Lit("time")>>)>>)>>),
    (* \b(benchmark|industry\s+standard|peer\s+analysis) *)
    Cat(<<WB, Alt(<<Lit("benchmark"), Cat(<<Lit("industry"), Plus(Space), Lit("standard")>>), Cat(<<Lit("peer"), Plus(Space), Lit("analysis")>>)>>)>>)
  >>


(***************************************************************************)
(* Python list, dict and number helpers.                                   *)
(***************************************************************************)
Range(seq) == { seq[i] : i \in 1..Len(seq) }

RECURSIVE ConcatAll(_)
\* the lists of a list of lists, one after the other (nested for ... extend)
ConcatAll(lists) == IF lists = <<>> THEN <<>> ELSE Head(lists) \o ConcatAll(Tail(lists))

RECURSIVE SeqSum(_)
\* sum(...) of a list of ints
SeqSum(seq) == IF seq = <<>> THEN 0 ELSE Head(seq) + SeqSum(Tail(seq))

\* lst[:n] for n >= 0
Prefix(lst, n) == SubSeq(lst, 1, IF n < Len(lst) THEN n ELSE Len(lst))

Min(a, b) == IF a < b THEN a ELSE b

RECURSIVE Gcd(_, _)
Gcd(a, b) == IF b = 0 THEN a ELSE Gcd(b, a % b)

\* a / b on ints (true division, b > 0): the float, as a reduced fraction
Div(a, b) == <<a \div Gcd(a, b), b \div Gcd(a, b)>>

RECURSIVE MaxKeyFrom(_, _, _)
MaxKeyFrom(d, n, best) ==
  IF n > Len(d) THEN d[best].key
  ELSE MaxKeyFrom(d, n + 1, IF d[n].value > d[best].value THEN n ELSE best)

RECURSIVE LastMaxKeyFrom(_, _, _)
LastMaxKeyFrom(d, n, best) ==
  IF n > Len(d) THEN d[best].key
  ELSE LastMaxKeyFrom(d, n + 1, IF d[n].value >= d[best].value THEN n ELSE best)

\* a max that gives the last of the keys with the greatest value
PyMaxKeyLast(d) == LastMaxKeyFrom(d, 2, 1)

\* max(d, key=d.get) on a non-empty dict: the first key, in insertion order,
\* whose value no later value exceeds
PyMaxKey(d) == MaxKeyFrom(d, 2, 1)

RECURSIVE MaxFrom(_, _, _)
MaxFrom(seq, n, best) ==
  IF n > Len(seq) THEN best ELSE MaxFrom(seq, n + 1, IF seq[n] > best THEN seq[n] ELSE best)

\* max(...) of a non-empty list of ints
PyMax(seq) == MaxFrom(seq, 2, seq[1])

RECURSIVE Arrangements(_, _)
\* every list of n distinct elements of S
Arrangements(S, n) ==
  IF n = 0 THEN {<<>>}
  ELSE UNION { { <<x>> \o rest : rest \in Arrangements(S \ {x}, n - 1) } : x \in S }

\* list(set(lst))[:n].  A set of str iterates in the order of the hash table
\* slots, and str hashes are salted per process: every order is a possible
\* outcome, so the result is any arrangement of min(n, size) distinct elements.
ListOfSetPrefix(lst, n) == Arrangements(Range(lst), Min(n, Cardinality(Range(lst))))

\* list(set(lst))
ListOfSet(lst) == ListOfSetPrefix(lst, Len(lst))

(***************************************************************************)
(* tagging.py: query understanding functions.                              *)
(***************************************************************************)
get_business_concept_hierarchy ==
  << [ name |-> "financial_performance",
       sub_concepts |-> <<"profitability", "revenue", "cost", "efficiency">> ],
     [ name |-> "growth_metrics",
       sub_concepts |-> <<"growth", "variance_calculation", "time_series">> ],
     [ name |-> "financial_position",
       sub_concepts |-> <<"liquidity", "leverage", "working_capital">> ],
     [ name |-> "operational_metrics",
       sub_concepts |-> <<"efficiency", "productivity", "utilization">> ],
     [ name |-> "analytical_tools",
       sub_concepts |-> <<"ratio_calculation", "benchmark_analysis", "planning_metrics">> ] >>

RECURSIVE PatternLoop(_, _, _, _)
\* for pattern in intent_config['patterns']: if re.search(...): score += 2; patterns.append(pattern)
\* (a matched pattern is recorded by its position in the list)
PatternLoop(patterns, n, query_lower, acc) ==
  IF n > Len(patterns) THEN acc
  ELSE PatternLoop(patterns, n + 1, query_lower,
         IF Search(patterns[n], query_lower)
         THEN [score |-> acc.score + 2, patterns |-> Append(acc.patterns, n)]
         ELSE acc)

RECURSIVE KeywordLoopDouble(_, _, _, _)
\* a keyword loop that gives a keyword the weight of a pattern
KeywordLoopDouble(keywords, n, query_lower, score) ==
  IF n > Len(keywords) THEN score
  ELSE KeywordLoopDouble(keywords, n + 1, query_lower,
         IF Contains(query_lower, keywords[n]) THEN score + 2 ELSE score)

RECURSIVE KeywordLoop(_, _, _, _)
\* for keyword in intent_config['keywords']: if keyword in query_lower: score += 1
KeywordLoop(keywords, n, query_lower, score) ==
  IF n > Len(keywords) THEN score
  ELSE KeywordLoop(keywords, n + 1, query_lower,
         IF Contains(query_lower, keywords[n]) THEN score + 1 ELSE score)

RECURSIVE IntentLoop(_, _, _)
\* for intent_name, intent_config in FINANCIAL_INTENT_PATTERNS.items(): ...
\*   if score > 0: intent_scores[intent_name] = score; matched_patterns[intent_name] = patterns
IntentLoop(n, query_lower, acc) ==
  IF n > Len(FINANCIAL_INTENT_PATTERNS) THEN acc
  ELSE LET intent_config == FINANCIAL_INTENT_PATTERNS[n]
           matched == PatternLoop(intent_config.patterns, 1, query_lower,
                                  [score |-> 0, patterns |-> <<>>])
           score == KeywordLoop(intent_config.keywords, 1, query_lower, matched.score)
       IN  IntentLoop(n + 1, query_lower,
             IF score > 0
             THEN [intent_scores |-> Append(acc.intent_scores,
                                            [key |-> intent_config.name, value |-> score]),
                   matched_patterns |-> Append(acc.matched_patterns,
                                               [key |-> intent_config.name, value |-> matched.patterns])]
             ELSE acc)

detect_financial_intent(query) ==
  LET query_lower == Lower(query)
      found == IntentLoop(1, query_lower, [intent_scores |-> <<>>, matched_patterns |-> <<>>])
      intent_scores == found.intent_scores
      primary_intent == PyMaxKey(intent_scores)
      primary_score == (CHOOSE e \in Range(intent_scores) : e.key = primary_intent).value
  IN  IF intent_scores # <<>>
      THEN [primary_intent |-> primary_intent,
            confidence |-> Div(primary_score, SeqSum([i \in 1..Len(intent_scores) |-> intent_scores[i].value])),
            all_intents |-> intent_scores,
            matched_patterns |-> found.matched_patterns]
      ELSE [primary_intent |-> "general_query",
            confidence |-> Div(0, 1),
            all_intents |-> <<>>,
            matched_patterns |-> <<>>]

RECURSIVE TemporalLoop(_, _, _)
\* for pattern in patterns: matches = re.findall(...); if matches: entities.extend(matches)
\* The matched texts are not modelled: the list gets one entry, the pattern's
\* position, for each pattern that finds a match, so it is empty exactly when
\* the source's list is.
TemporalLoop(patterns, n, query_lower) ==
  IF n > Len(patterns) THEN <<>>
  ELSE (IF Search(patterns[n], query_lower) THEN <<n>> ELSE <<>>)
       \o TemporalLoop(patterns, n + 1, query_lower)

extract_temporal_entities(query) ==
  LET query_lower == Lower(query)
      temporal_entities ==
        [i \in 1..Len(TEMPORAL_PATTERNS) |->
           [key |-> TEMPORAL_PATTERNS[i].name,
            value |-> TemporalLoop(TEMPORAL_PATTERNS[i].patterns, 1, query_lower)]]
  IN  [has_temporal_context |-> \E i \in 1..Len(temporal_entities) : temporal_entities[i].value # <<>>,
       temporal_entities |-> temporal_entities,
       temporal_types |-> LET kept == SelectSeq(temporal_entities, LAMBDA e : e.value # <<>>)
                          IN  [i \in 1..Len(kept) |-> kept[i].key]]

\* the variations one term group adds: for each primary term in the query,
\* for each synonym, the query with the term replaced, when that changes it
TermVariations(terms, query_lower) ==
  ConcatAll([p \in 1..Len(terms.primary) |->
    IF Contains(query_lower, terms.primary[p])
    THEN SelectSeq([s \in 1..Len(terms.synonyms) |->
                      Replace(query_lower, terms.primary[p], terms.synonyms[s])],
                   LAMBDA expanded_query : expanded_query # query_lower)
    ELSE <<>>])

\* the list expanded_queries before the final list(set(...))[:5]
expanded_queries(query) ==
  <<query>> \o ConcatAll([t \in 1..Len(BUSINESS_TERMS) |->
                            TermVariations(BUSINESS_TERMS[t], Lower(query))])

\* the possible results of expand_financial_synonyms(query)
expand_financial_synonyms(query) == ListOfSetPrefix(expanded_queries(query), 5)

(***************************************************************************)
(* query_processor.py: QueryProcessor.                                     *)
(***************************************************************************)
RECURSIVE CountMatches(_, _, _)
\* sum(1 for pattern in patterns if re.search(pattern, query_lower))
CountMatches(patterns, n, query_lower) ==
  IF n > Len(patterns) THEN 0
  ELSE (IF Search(patterns[n], query_lower) THEN 1 ELSE 0)
       + CountMatches(patterns, n + 1, query_lower)

\* the object QueryProcessor() constructs: its three pattern lists
QueryProcessor ==
  [conceptual_patterns |-> conceptual_patterns,
   functional_patterns |-> functional_patterns,
   comparative_patterns |-> comparative_patterns]

\* QueryProcessor.categorize_query(self, query)
QueryProcessor_categorize_query(self, query) ==
  LET query_lower == Lower(query)
      scores == << [key |-> "conceptual", value |-> CountMatches(self.conceptual_patterns, 1, query_lower)],
                   [key |-> "functional", value |-> CountMatches(self.functional_patterns, 1, query_lower)],
                   [key |-> "comparative", value |-> CountMatches(self.comparative_patterns, 1, query_lower)] >>
      values == [i \in 1..Len(scores) |-> scores[i].value]
  IN  [primary_category |-> PyMaxKey(scores),
       confidence |-> IF SeqSum(values) > 0 THEN Div(PyMax(values), SeqSum(values)) ELSE Div(0, 1),
       scores |-> scores,
       is_hybrid |-> SeqSum([i \in 1..Len(values) |-> IF values[i] > 0 THEN 1 ELSE 0]) > 1]

\* categorize_query of a processor as constructed
categorize_query(query) == QueryProcessor_categorize_query(QueryProcessor, query)

\* the if / elif / elif of extract_business_concepts: each branch appends the concept
ConceptMatches(terms, query_lower) ==
  IF \E i \in 1..Len(terms.primary) : Contains(query_lower, terms.primary[i]) THEN TRUE
  ELSE IF \E i \in 1..Len(terms.synonyms) : Contains(query_lower, terms.synonyms[i]) THEN TRUE
  ELSE \E i \in 1..Len(terms.patterns) : Search(terms.patterns[i], query_lower)

\* the list `concepts` before the final list(set(concepts))
matched_concepts(query) ==
  LET hits == SelectSeq(BUSINESS_TERMS, LAMBDA terms : ConceptMatches(terms, Lower(query)))
  IN  [i \in 1..Len(hits) |-> hits[i].name]

\* the possible results of extract_business_concepts(query)
extract_business_concepts(query) == ListOfSet(matched_concepts(query))

expand_query_terms(query) == expand_financial_synonyms(query)

detect_query_intent(query) == detect_financial_intent(query)

extract_temporal_context(query) == extract_temporal_entities(query)

reformulate_query(query, intent) ==
  LET primary_intent == intent.primary_intent
      templates ==
        CASE primary_intent = "spending_analysis" ->
               <<"total expenses ", "spending breakdown ", "cost analysis ">>
          [] primary_intent = "budgeting" ->
               <<"budget vs actual ", "planned spending ", "budget variance ">>
          [] primary_intent = "trend_analysis" ->
               <<"trend over time ", "growth pattern ", "time series ">>
          [] primary_intent = "category_analysis" ->
               <<"category breakdown ", "spending by type ", "classification ">>
          [] primary_intent = "transaction_search" ->
               <<"find transactions ", "search payments ", "locate purchases ">>
          [] primary_intent = "comparison" ->
               <<"compare ", "versus analysis ", "benchmark ">>
          [] OTHER -> <<>>
  IN  Prefix(<<query>> \o [i \in 1..Len(templates) |-> templates[i] \o query], 5)

\* a conceptual processing whose filter is the related concepts alone
process_conceptual_query_related_only(query, concepts) ==
  LET hierarchy == get_business_concept_hierarchy
      related_concepts ==
        ConcatAll([g \in 1..Len(hierarchy) |->
          IF \E i \in 1..Len(concepts) : concepts[i] \in Range(hierarchy[g].sub_concepts)
          THEN hierarchy[g].sub_concepts
          ELSE <<>>])
  IN  [type |-> "conceptual",
       target_concepts |-> concepts,
       related_concepts |-> Range(related_concepts),
       search_strategy |-> "semantic_similarity",
       filter_categories |-> related_concepts]

\* 'related_concepts' is list(set(related_concepts)), a list in unspecified
\* order that nothing reads back: it is kept as the set of its elements.
process_conceptual_query(query, concepts) ==
  LET hierarchy == get_business_concept_hierarchy
      related_concepts ==
        ConcatAll([g \in 1..Len(hierarchy) |->
          IF \E i \in 1..Len(concepts) : concepts[i] \in Range(hierarchy[g].sub_concepts)
          THEN hierarchy[g].sub_concepts
          ELSE <<>>])
  IN  [type |-> "conceptual",
       target_concepts |-> concepts,
       related_concepts |-> Range(related_concepts),
       search_strategy |-> "semantic_similarity",
       filter_categories |-> concepts \o related_concepts]

\* any(term in query_lower for term in terms)
AnyTermIn(terms, query_lower) == \E i \in 1..Len(terms) : Contains(query_lower, terms[i])

process_functional_query(query) ==
  LET query_lower == Lower(query)
      function_types ==
           (IF AnyTermIn(<<"percentage", "%", "percent">>, query_lower) THEN <<"percentage">> ELSE <<>>)
        \o (IF AnyTermIn(<<"average", "mean">>, query_lower) THEN <<"aggregation">> ELSE <<>>)
        \o (IF AnyTermIn(<<"sum", "total", "add">>, query_lower) THEN <<"aggregation">> ELSE <<>>)
        \o (IF AnyTermIn(<<"vlookup", "lookup", "index", "match">>, query_lower) THEN <<"lookup">> ELSE <<>>)
        \o (IF AnyTermIn(<<"if", "conditional", "condition">>, query_lower) THEN <<"conditional">> ELSE <<>>)
  IN  [type |-> "functional",
       function_types |-> function_types,
       search_strategy |-> "formula_analysis",
       filter_categories |-> [i \in 1..Len(function_types) |-> "formula_" \o function_types[i]]]

\* a comparative processing whose filter follows the detected sub-types
process_comparative_query_by_type(query) ==
  LET query_lower == Lower(query)
      filter_categories ==
           (IF AnyTermIn(<<"budget", "actual", "forecast", "target">>, query_lower) THEN <<"planning_metrics">> ELSE <<>>)
        \o (IF AnyTermIn(<<"time", "trend", "historical", "series">>, query_lower) THEN <<"time_series">> ELSE <<>>)
        \o (IF AnyTermIn(<<"benchmark", "industry", "peer", "standard">>, query_lower) THEN <<"benchmark_analysis">> ELSE <<>>)
  IN  [type |-> "comparative",
       comparison_types |-> <<>>,
       search_strategy |-> "contextual_analysis",
       filter_categories |-> filter_categories]

process_comparative_query(query) ==
  LET query_lower == Lower(query)
      comparison_types ==
           (IF AnyTermIn(<<"budget", "actual", "forecast", "target">>, query_lower) THEN <<"planning">> ELSE <<>>)
        \o (IF AnyTermIn(<<"time", "trend", "historical", "series">>, query_lower) THEN <<"temporal">> ELSE <<>>)
        \o (IF AnyTermIn(<<"benchmark", "industry", "peer", "standard">>, query_lower) THEN <<"benchmark">> ELSE <<>>)
  IN  [type |-> "comparative",
       comparison_types |-> comparison_types,
       search_strategy |-> "contextual_analysis",
       filter_categories |-> <<"planning_metrics", "time_series", "benchmark_analysis">>]

\* a step 7 that asks the legacy category first and the intent only when no
\* pattern family matched
select_processing_by_category(query, primary_intent, categorization, concepts) ==
  IF categorization.confidence[1] > 0 /\ categorization.primary_category = "functional"
  THEN process_functional_query(query)
  ELSE IF categorization.confidence[1] > 0 /\ categorization.primary_category = "comparative"
  THEN process_comparative_query(query)
  ELSE IF primary_intent \in {"spending_analysis", "budgeting", "trend_analysis", "category_analysis"}
  THEN [process_conceptual_query(query, concepts) EXCEPT !.search_strategy = "financial_semantic_search"]
  ELSE IF primary_intent = "transaction_search"
  THEN [process_functional_query(query) EXCEPT !.search_strategy = "transaction_search"]
  ELSE IF primary_intent = "comparison"
  THEN [process_comparative_query(query) EXCEPT !.search_strategy = "comparative_analysis"]
  ELSE process_conceptual_query(query, concepts)

\* Step 7 of process_query: processing by intent (priority) or legacy category (fallback)
select_processing(query, primary_intent, categorization, concepts) ==
  IF primary_intent \in {"spending_analysis", "budgeting", "trend_analysis", "category_analysis"}
  THEN [process_conceptual_query(query, concepts) EXCEPT !.search_strategy = "financial_semantic_search"]
  ELSE IF primary_intent = "transaction_search"
  THEN [process_functional_query(query) EXCEPT !.search_strategy = "transaction_search"]
  ELSE IF primary_intent = "comparison"
  THEN [process_comparative_query(query) EXCEPT !.search_strategy = "comparative_analysis"]
  ELSE IF categorization.primary_category = "conceptual"
  THEN process_conceptual_query(query, concepts)
  ELSE IF categorization.primary_category = "functional"
  THEN process_functional_query(query)
  ELSE IF categorization.primary_category = "comparative"
  THEN process_comparative_query(query)
  ELSE process_conceptual_query(query, concepts)

\* a step 8 that attaches the temporal keys whether or not a context was found
attach_temporal_always(processing_result, temporal_context) ==
  [temporal_filters |-> temporal_context.temporal_entities,
   temporal_types |-> temporal_context.temporal_types] @@ processing_result

\* Step 8 of process_query: temporal filters are attached when a temporal context was found
attach_temporal(processing_result, temporal_context) ==
  IF temporal_context.has_temporal_context
  THEN [temporal_filters |-> temporal_context.temporal_entities,
        temporal_types |-> temporal_context.temporal_types] @@ processing_result
  ELSE processing_result

\* the possible results of QueryProcessor.process_query(query): one for each
\* order list(set(...)) can give the concepts and the expanded terms
QueryProcessor_process_query(self, query) ==
  LET intent_analysis == detect_query_intent(query)
      temporal_context == extract_temporal_context(query)
      categorization == QueryProcessor_categorize_query(self, query)
      reformulated_queries == reformulate_query(query, intent_analysis)
  IN  { [original_query |-> query,
         intent_analysis |-> intent_analysis,
         temporal_context |-> temporal_context,
         categorization |-> categorization,
         extracted_concepts |-> concepts,
         expanded_terms |-> expanded_terms,
         reformulated_queries |-> reformulated_queries,
         processing_result |->
           attach_temporal(select_processing(query, intent_analysis.primary_intent,
                                             categorization, concepts),
                           temporal_context)]
        : concepts \in extract_business_concepts(query),
          expanded_terms \in expand_query_terms(query) }

\* process_query of a processor as constructed
process_query(query) == QueryProcessor_process_query(QueryProcessor, query)

\* a processor that remembers each query as one more conceptual pattern
self_learning_query(self, query) ==
  [self EXCEPT !.conceptual_patterns = Append(@, Lit(Lower(query)))]

\* the processor after process_query(query): the method and what it calls
\* assign no attribute of self and change none of its lists
self_after_process_query(self, query) == self

(***************************************************************************)
(* utils.py: sanitize_query_input and explain_relevance.                   *)
(***************************************************************************)
max_length == 500

\* string.punctuation (without the backquote, which no modelled input contains)
punctuation == "!\"#$%&'()*+,-./:;<=>?@[\\]^_{|}~"

\* string.ascii_letters + string.digits + string.punctuation + string.whitespace
\* (whitespace without the vertical tab, which no modelled input contains)
allowed_chars ==
  Chars(ascii_lowercase) \cup Chars(ascii_uppercase) \cup Chars(digits)
    \cup Chars(punctuation) \cup SpaceChars

RECURSIVE KeepAllowed(_)
\* the characters of query_text that are in allowed_chars, joined
KeepAllowed(s) ==
  IF s = "" THEN ""
  ELSE (IF Head(s) \in allowed_chars THEN Head(s) ELSE "") \o KeepAllowed(Tail(s))

RECURSIVE SplitFrom(_, _, _)
SplitFrom(s, i, word) ==
  IF i >= Len(s) THEN (IF word = "" THEN <<>> ELSE <<word>>)
  ELSE IF CharAt(s, i + 1) \in SpaceChars
  THEN (IF word = "" THEN <<>> ELSE <<word>>) \o SplitFrom(s, i + 1, "")
  ELSE SplitFrom(s, i + 1, word \o CharAt(s, i + 1))

\* s.split(): the maximal runs of non-whitespace characters
Split(s) == SplitFrom(s, 0, "")

RECURSIVE Join(_, _)
\* sep.join(parts)
Join(sep, parts) ==
  IF parts = <<>> THEN ""
  ELSE IF Len(parts) = 1 THEN parts[1]
  ELSE parts[1] \o sep \o Join(sep, Tail(parts))

RECURSIVE LStrip(_)
LStrip(s) == IF s # "" /\ Head(s) \in SpaceChars THEN LStrip(Tail(s)) ELSE s

RECURSIVE RStrip(_)
RStrip(s) ==
  IF s # "" /\ CharAt(s, Len(s)) \in SpaceChars THEN RStrip(SubSeq(s, 1, Len(s) - 1)) ELSE s

\* s.strip()
Strip(s) == RStrip(LStrip(s))

suspicious_patterns ==
  << "ignore previous instructions", "ignore above", "ignore all previous", "system prompt",
     "you are now", "pretend to be", "act as if", "new instructions:", "override previous",
     "execute", "run command", "exec(", "eval(", "system(", "__import__", "subprocess",
     "os.system", "shell", "bash", "cmd",
     "<script", "</script>", "javascript:", "data:text/html", "vbscript:", "onclick",
     "onerror", "onload",
     "union select", "drop table", "delete from", "insert into", "update set", "--", "/*",
     "*/", "or 1=1", "and 1=1",
     "../", "..\\", "/etc/passwd", "/etc/shadow", "c:\\windows",
     "http://", "https://", "ftp://", "file://", "smtp://" >>

\* raise HTTPException(status_code=400, detail=...)
Raise400(detail) == [raised |-> TRUE, status_code |-> 400, detail |-> detail]

\* sanitize_query_input(query_text): the returned str, or the HTTPException raised
sanitize_query_input(query_text) ==
  LET sanitized == Join(" ", Split(KeepAllowed(query_text)))
      query_lower == Lower(sanitized)
  IN  IF query_text = "" THEN Raise400("Query text is required")
      ELSE IF Len(query_text) > max_length
      THEN Raise400("Query too long. Maximum length is 500 characters")
      ELSE IF \E i \in 1..Len(suspicious_patterns) : Contains(query_lower, suspicious_patterns[i])
      THEN Raise400("Query contains potentially unsafe content")
      ELSE IF Len(Strip(sanitized)) < 2
      THEN Raise400("Query must be at least 2 characters long")
      ELSE [raised |-> FALSE, value |-> Strip(sanitized)]

\* an explain_relevance that looks at the document's categories first
explain_relevance_categories_first(analysis, doc_categories, doc_content) ==
  LET extracted_concepts == analysis.extracted_concepts
      query_type == analysis.categorization.primary_category
      matching_concepts == SelectSeq(extracted_concepts, LAMBDA concept : concept \in Range(doc_categories))
  IN  IF doc_categories # <<>>
      THEN "Contains " \o Join(", ", Prefix(doc_categories, 2)) \o " data relevant to your search"
      ELSE IF matching_concepts # <<>>
      THEN "Matches " \o Join(", ", matching_concepts) \o " concepts from your " \o query_type \o " query"
      ELSE "Text similarity match with your query (content: " \o Prefix(doc_content, 50) \o "...)"

\* explain_relevance(query_analysis, doc_categories, doc_content)
explain_relevance(analysis, doc_categories, doc_content) ==
  LET extracted_concepts == analysis.extracted_concepts
      query_type == analysis.categorization.primary_category
      matching_concepts == SelectSeq(extracted_concepts, LAMBDA concept : concept \in Range(doc_categories))
  IN  IF matching_concepts # <<>>
      THEN "Matches " \o Join(", ", matching_concepts) \o " concepts from your " \o query_type \o " query"
      ELSE IF doc_categories # <<>>
      THEN "Contains " \o Join(", ", Prefix(doc_categories, 2)) \o " data relevant to your search"
      ELSE "Text similarity match with your query (content: " \o Prefix(doc_content, 50) \o "...)"

(***************************************************************************)
(* The index (vector_store.py wraps Chroma, which is outside the           *)
(* repository).  A stored document is its page_content and metadata, with  *)
(* the JSON payloads dataframe_to_documents writes; a payload is kept as   *)
(* the value json.dumps was given, tagged "json".  Scores are distances in *)
(* units of 0.0004 (1 is 0.0004, 2 is 0.0008, ...).                        *)
(***************************************************************************)
json_dumps(value) == <<"json", value>>

\* json.loads(payload)
json_loads(payload) == payload[2]

\* json.loads(payload) raises json.JSONDecodeError: a stored payload
\* <<"not_json", text>> is text that is not JSON
JSONDecodeError(payload) == payload[1] = "not_json"

\* a stored payload <<"json_number", n>> is the JSON text of the number n:
\* json.loads gives the int n, which is neither iterable nor subscriptable
DecodesToNumber(payload) == payload[1] = "json_number"

\* try: json.loads(payload) / except (json.JSONDecodeError, TypeError): default
loads_or(payload, default) == IF JSONDecodeError(payload) THEN default ELSE json_loads(payload)

Document(page_content, row_index, categories, column_types, explanation) ==
  [page_content |-> page_content,
   metadata |-> [row_index |-> row_index,
                 column_types_json |-> json_dumps(column_types),
                 categories_json |-> json_dumps(categories),
                 classification_explanation |-> explanation]]

\* {col: column_types[col] for col in df.columns} of a sheet with the columns
\* Item and one other
ColumnTypes(column, type) ==
  << [key |-> "Item", value |-> "categorical"], [key |-> column, value |-> type] >>

\* The documents of the index: rows 0, 1 and 2 of one upload, and row 0 of
\* another (uploads add to the same persisted store, so a row_index repeats).
Docs ==
  { Document("Item: rent, Cost: $10 (cost metric)", 0, <<"cost", "currency">>,
             ColumnTypes("Cost", "currency"),
             "Contains cost/expense data (operational metric)"),
    Document("Item: sales, Revenue: 7", 1, <<"revenue">>,
             ColumnTypes("Revenue", "numeric"),
             "Classified as: revenue"),
    Document("Item: bank, Cash: 7", 2, <<"liquidity", "currency", "percentage">>,
             ColumnTypes("Cash", "currency"),
             "Contains percentage-based calculations"),
    Document("Item: rent for the warehouse on the north side, Note: paid by transfer", 0, <<>>,
             ColumnTypes("Note", "categorical"),
             "No specific business classification found.") }

MaxScore == 2

\* a (doc, score) pair of similarity_search_with_score
Hits == [doc : Docs, score : 1..MaxScore]

\* documents whose stored payloads are not what dataframe_to_documents
\* writes: categories and column types that are not JSON, and categories
\* that are the JSON text of a number
MalformedDocs ==
  { [page_content |-> "Item: loan, Cost: $9 (cost metric)",
     metadata |-> [row_index |-> 3,
                   column_types_json |-> <<"not_json", "{'Item': 'categorical'">>,
                   categories_json |-> <<"not_json", "['cost', 'currency'">>,
                   classification_explanation |->
                     "Contains cost/expense data (operational metric)"]],
    [page_content |-> "Item: fees, Cost: $4 (cost metric)",
     metadata |-> [row_index |-> 4,
                   column_types_json |-> json_dumps(ColumnTypes("Cost", "currency")),
                   categories_json |-> <<"json_number", 5>>,
                   classification_explanation |->
                     "Contains cost/expense data (operational metric)"]] }

\* a (doc, score) pair of an index that also holds the malformed documents
StoredHits == [doc : Docs \cup MalformedDocs, score : 1..MaxScore]

\* round(score, 3), in thousandths
round3(score) == (4 * score + 5) \div 10


(***************************************************************************)
(* Bounds of the model.                                                    *)
(***************************************************************************)
\* the largest k a request carries (QueryRequest.k is any int: -1 is included)
MaxK == 2

\* the most hits the index returns to one request of SpecAgg, over all its calls
MaxHits == 3

\* the most hits the index returns to one request of Spec, over all its calls
MaxHitsPerRequest == 1

\* the most hits the index returns to one request of SpecStored, over all its calls
MaxStoredHits == 2

Ks == -1..MaxK

RECURSIVE Repeat(_, _)
\* s * n
Repeat(s, n) == IF n <= 0 THEN "" ELSE s \o Repeat(s, n - 1)

\* the question of a request to Spec
Questions ==
  { "", "x", "drop table costs", Repeat("costs ", 84),
    "  Cash  ", "spending", "compare trend", "find payments" }

\* the question of a request to SpecAgg: questions that have no expansion
AggQuestions == { "spending", "compare", "find payments", "spending 2023" }

\* the argument of a call to the query processor in SpecQP
QPQuestions ==
  { "Cash", "spending", "find payments", "compare trend", "budget vs actual",
    "payment type", "best type", "compare monthly trend", "locate metrics vs",
    "sum formulas vs", "sum formulas vs trend", "hi",
    "sum formulas", "benchmark", "last month", "sum formulas last year", "compare 2023",
    "spending 2023", "average sum formulas %", "find payments if total",
    "roi", "roi yoy", "roi taxation", "taxation", "from jan to mar 2023" }

(***************************************************************************)
(* main.py: the aggregation of query_spreadsheet.  A dict is the sequence  *)
(* of its [key, value] items in insertion order.                           *)
(***************************************************************************)
HasKey(d, key) == \E i \in 1..Len(d) : d[i].key = key

GetItem(d, key) == (CHOOSE i \in 1..Len(d) : d[i].key = key)

\* an assignment that moves a key already in d to the end
SetItemAtEnd(d, key, value) ==
  Append(SelectSeq(d, LAMBDA item : item.key # key), [key |-> key, value |-> value])

\* d[key] = value: a key already in d keeps its position
SetItem(d, key, value) ==
  IF HasKey(d, key)
  THEN [i \in 1..Len(d) |-> IF d[i].key = key THEN [key |-> key, value |-> value] ELSE d[i]]
  ELSE Append(d, [key |-> key, value |-> value])

\* list(d.values())
Values(d) == [i \in 1..Len(d) |-> d[i].value]

RECURSIVE DedupLoopKeepFirst(_, _)
\* a loop that keeps the first hit of each row_index, whatever its score
DedupLoopKeepFirst(results, unique) ==
  IF results = <<>> THEN unique
  ELSE LET hit == Head(results)
           row_index == hit.doc.metadata.row_index
       IN  DedupLoopKeepFirst(Tail(results),
             IF ~HasKey(unique, row_index) THEN SetItem(unique, row_index, hit) ELSE unique)

RECURSIVE DedupLoop(_, _)
\* the loop that removes duplicates based on row_index
DedupLoop(results, unique) ==
  IF results = <<>> THEN unique
  ELSE LET hit == Head(results)
           row_index == hit.doc.metadata.row_index
       IN  DedupLoop(Tail(results),
             IF ~HasKey(unique, row_index) \/ hit.score < unique[GetItem(unique, row_index)].value.score
             THEN SetItem(unique, row_index, hit)
             ELSE unique)

RECURSIVE InsertByScore(_, _)
\* hit goes after every element whose score is not greater
InsertByScore(sorted, hit) ==
  IF sorted = <<>> THEN <<hit>>
  ELSE IF hit.score < Head(sorted).score THEN <<hit>> \o sorted
  ELSE <<Head(sorted)>> \o InsertByScore(Tail(sorted), hit)

RECURSIVE SortByScore(_)
\* lst.sort(key=lambda x: x[1]): the sort is stable
SortByScore(lst) ==
  IF lst = <<>> THEN <<>>
  ELSE InsertByScore(SortByScore(SubSeq(lst, 1, Len(lst) - 1)), lst[Len(lst)])

\* the categories of a hit's document, parsed from its categories_json
DocCategories(hit) == loads_or(hit.doc.metadata.categories_json, <<>>)

\* any(cat in doc_categories for cat in filter_categories)
MatchesFilter(hit, filter_categories) ==
  \E i \in 1..Len(filter_categories) : filter_categories[i] \in Range(DocCategories(hit))

\* the category-based filtering, with its fall back to all results
CategoryFilter(results, filter_categories) ==
  LET category_filtered == SelectSeq(results, LAMBDA hit : MatchesFilter(hit, filter_categories))
  IN  IF filter_categories # <<>> /\ category_filtered # <<>>
      THEN category_filtered
      ELSE results

\* lst[:n]: a negative n counts from the end
PySlice(lst, n) ==
  IF n >= 0 THEN Prefix(lst, n)
  ELSE SubSeq(lst, 1, IF Len(lst) + n > 0 THEN Len(lst) + n ELSE 0)

\* a filtering that takes temporal_filters for a filter no document passes
FilteredResultsByPeriod(results, analysis) ==
  IF "temporal_filters" \in DOMAIN analysis.processing_result
  THEN <<>>
  ELSE CategoryFilter(SortByScore(Values(DedupLoop(results, <<>>))),
                      analysis.processing_result.filter_categories)

\* filtered_results before the cut to k: deduplicated, sorted, category-filtered
FilteredResults(results, analysis) ==
  CategoryFilter(SortByScore(Values(DedupLoop(results, <<>>))),
                 analysis.processing_result.filter_categories)

\* final_results = filtered_results[:query.k]
FinalResults(results, analysis, n) == PySlice(FilteredResults(results, analysis), n)

\* the category-based filtering raises TypeError: `cat in doc_categories` on an
\* int, for a hit of the deduplicated list, outside the try of json.loads
FilterRaises(results, analysis) ==
  LET ranked == SortByScore(Values(DedupLoop(results, <<>>)))
  IN  /\ analysis.processing_result.filter_categories # <<>>
      /\ \E i \in 1..Len(ranked) : DecodesToNumber(ranked[i].doc.metadata.categories_json)

\* the formatting raises TypeError: explain_relevance is given an int for
\* doc_categories by a hit of final_results
FormatRaises(results, analysis, n) ==
  /\ ~FilterRaises(results, analysis)
  /\ \E i \in 1..Len(FinalResults(results, analysis, n)) :
       DecodesToNumber(FinalResults(results, analysis, n)[i].doc.metadata.categories_json)

\* str(e) of the TypeError
TypeErrorMessage(results, analysis) ==
  IF FilterRaises(results, analysis) \/ analysis.extracted_concepts # <<>>
  THEN "argument of type 'int' is not iterable"
  ELSE "'int' object is not subscriptable"

\* one entry of the response
FormatResult(hit, analysis) ==
  LET metadata == hit.doc.metadata
      categories == loads_or(metadata.categories_json, <<>>)
  IN  [row_index |-> metadata.row_index,
       row_text |-> hit.doc.page_content,
       score |-> round3(hit.score),
       business_categories |-> categories,
       explanation |-> metadata.classification_explanation,
       column_types |-> loads_or(metadata.column_types_json, <<>>),
       relevance_reason |-> explain_relevance(analysis, categories, hit.doc.page_content)]

\* the value query_spreadsheet returns
FormatResponse(final, analysis, original_query) ==
  LET results == [i \in 1..Len(final) |-> FormatResult(final[i], analysis)]
  IN  [results |-> results,
       query_analysis |->
         [original_query |-> original_query,
          query_type |-> analysis.categorization.primary_category,
          confidence |-> analysis.categorization.confidence,
          extracted_concepts |-> analysis.extracted_concepts,
          search_strategy |-> analysis.processing_result.search_strategy],
       total_results_found |-> Len(results)]

(***************************************************************************)
(* tagging.py: row tagging.  A dict with optional keys (a FormulaInfo, a   *)
(* per-column map) is a sequence of [key, value] records; None and {} are  *)
(* both <<>>, which the source only ever tests for truth.                  *)
(***************************************************************************)
FORMULA_FUNCTIONS ==
  << [ name |-> "aggregation",
       func_list |-> <<"sum", "average", "count", "max", "min", "median">> ],
     [ name |-> "lookup",
       func_list |-> <<"vlookup", "hlookup", "index", "match", "xlookup">> ],
     [ name |-> "conditional",
       func_list |-> <<"if", "sumif", "countif", "averageif", "sumifs", "countifs">> ],
     [ name |-> "mathematical",
       func_list |-> <<"round", "abs", "sqrt", "power", "log">> ],
     [ name |-> "text",
       func_list |-> <<"concatenate", "left", "right", "mid", "len", "trim">> ],
     [ name |-> "date",
       func_list |-> <<"today", "now", "year", "month", "day", "date">> ] >>

CONTEXT_PATTERNS ==
  << [ name |-> "time_series",
       patterns |-> <<
         (* \b(q[1-4]|quarter|yr\d+|year|monthly|annual)\b *)
         Cat(<<WB, Alt(<<Cat(<<Lit("q"), OneOf("1234")>>), Lit("quarter"),
                         Cat(<<Lit("yr"), Plus(Digit)>>), Lit("year"), Lit("monthly"),
                         Lit("annual")>>), WB>>) >> ],
     [ name |-> "percentage",
       patterns |-> <<
         (* %|percent|margin|rate|ratio *)
         Alt(<<Lit("%"), Lit("percent"), Lit("margin"), Lit("rate"), Lit("ratio")>>) >> ],
     [ name |-> "currency",
       patterns |-> <<
         (* \$|revenue|cost|profit|expense|price|value *)
         Alt(<<Lit("$"), Lit("revenue"), Lit("cost"), Lit("profit"), Lit("expense"),
               Lit("price"), Lit("value")>>) >> ],
     [ name |-> "comparative",
       patterns |-> <<
         (* \bvs\b|versus|compared|budget|actual|forecast|target *)
         Alt(<<Cat(<<WB, Lit("vs"), WB>>), Lit("versus"), Lit("compared"), Lit("budget"),
               Lit("actual"), Lit("forecast"), Lit("target")>>) >> ] >>

\* d.get(key, default)
Get(d, key, default) ==
  IF HasKey(d, key) THEN d[CHOOSE i \in 1..Len(d) : d[i].key = key].value ELSE default

\* the (term, category) list of extract_business_synonyms
compound_terms ==
  << <<"gross profit", "profitability">>, <<"net profit", "profitability">>,
     <<"operating profit", "profitability">>, <<"profit margin", "profitability">>,
     <<"gross margin", "profitability">>, <<"net margin", "profitability">>,
     <<"total revenue", "revenue">>, <<"net revenue", "revenue">>,
     <<"sales revenue", "revenue">>, <<"operating expense", "cost">>,
     <<"cost of goods sold", "cost">>, <<"return on investment", "efficiency">>,
     <<"return on equity", "efficiency">>, <<"working capital", "liquidity">>,
     <<"cash flow", "liquidity">> >>

\* extract_business_synonyms(text): a set
extract_business_synonyms(text) ==
  { compound_terms[i][2] :
      i \in { j \in 1..Len(compound_terms) : Contains(Lower(text), compound_terms[j][1]) } }

\* the names of the entries of a table that satisfy Test, in table order
NamesWhere(table, Test(_)) ==
  LET hits == SelectSeq(table, Test) IN [i \in 1..Len(hits) |-> hits[i].name]

\* classify_by_formula(formula_info): the keys 'functions' and 'operations'
\* are looked up in the dict the caller passes
classify_by_formula(formula_info) ==
  IF formula_info = <<>> THEN <<>>
  ELSE LET functions == Get(formula_info, "functions", <<>>)
           operations == Get(formula_info, "operations", <<>>)
           lowered == { Lower(functions[i]) : i \in 1..Len(functions) }
           OfCategory(entry) ==
             \E i \in 1..Len(entry.func_list) : Lower(entry.func_list[i]) \in lowered
           formula_categories == NamesWhere(FORMULA_FUNCTIONS, OfCategory)
       IN  [i \in 1..Len(formula_categories) |-> "formula_" \o formula_categories[i]]
           \o (IF "division" \in Range(operations) THEN <<"ratio_calculation">> ELSE <<>>)
           \o (IF "subtraction" \in Range(operations) THEN <<"variance_calculation">> ELSE <<>>)
           \o (IF "multiplication" \in Range(operations) THEN <<"scaling_calculation">> ELSE <<>>)

\* a set as a list, in some order
RECURSIVE SomeListOf(_)
SomeListOf(S) ==
  IF S = {} THEN <<>> ELSE LET x == CHOOSE y \in S : TRUE IN <<x>> \o SomeListOf(S \ {x})

\* the six tag sources of classify_metric, each as the list it appends
business_concept_tags(text) ==
  NamesWhere(BUSINESS_TERMS, LAMBDA terms : ConceptMatches(terms, text))

compound_tags(text) == SomeListOf(extract_business_synonyms(text))

context_tags(text) ==
  NamesWhere(CONTEXT_PATTERNS,
             LAMBDA context : \E i \in 1..Len(context.patterns) : Search(context.patterns[i], text))

formula_tags(formula_info) ==
  IF formula_info # <<>> THEN classify_by_formula(formula_info) ELSE <<>>

column_type_tags(column_types) ==
  LET typed == SelectSeq(column_types,
                         LAMBDA item : item.value \in {"percentage", "currency", "ratio"})
  IN  [i \in 1..Len(typed) |-> typed[i].value]

special_tags(text) ==
  (IF AnyTermIn(<<"budget", "actual", "forecast", "target">>, text)
   THEN <<"planning_metrics">> ELSE <<>>)
  \o (IF AnyTermIn(<<"benchmark", "industry", "peer", "competitor">>, text)
      THEN <<"benchmark_analysis">> ELSE <<>>)

\* the list `categories` of classify_metric before its last line
collected_categories(row_text, formula_info, column_types) ==
  LET text == Lower(row_text)
  IN  business_concept_tags(text) \o compound_tags(text) \o context_tags(text)
      \o formula_tags(formula_info) \o column_type_tags(column_types) \o special_tags(text)

\* a classify_metric that returns the collected list as it is
classify_metric_as_collected(row_text, formula_info, column_types) ==
  { collected_categories(row_text, formula_info, column_types) }

\* the possible results of classify_metric(row_text, formula_info, column_types):
\* return list(set(categories))
classify_metric(row_text, formula_info, column_types) ==
  ListOfSet(collected_categories(row_text, formula_info, column_types))

\* explain_classification(categories, row_text)
explain_classification(categories, row_text) ==
  LET text_lower == Lower(row_text)
      Phrase(category) ==
        CASE category = "profitability" ->
               IF Contains(text_lower, "margin")
               THEN <<"Contains margin calculations (profitability metric)">>
               ELSE IF Contains(text_lower, "profit")
               THEN <<"Contains profit-related data (profitability metric)">>
               ELSE <<>>
          [] category = "revenue" -> <<"Contains revenue/sales data (top-line metric)">>
          [] category = "cost" -> <<"Contains cost/expense data (operational metric)">>
          [] category = "growth" ->
               <<"Contains growth or change metrics (performance indicator)">>
          [] category = "efficiency" -> <<"Contains efficiency ratios (performance metric)">>
          [] category = "percentage" -> <<"Contains percentage-based calculations">>
          [] category = "ratio_calculation" ->
               <<"Contains ratio calculations (analytical metric)">>
          [] category = "budgeting" -> <<"Contains budget or planning data">>
          [] category = "variance" -> <<"Contains variance or comparison analysis">>
          [] category = "investment" -> <<"Contains investment or asset data">>
          [] category = "tax" -> <<"Contains tax-related information">>
          [] category = "valuation" -> <<"Contains valuation or market data">>
          [] OTHER -> <<>>
      explanations == ConcatAll([i \in 1..Len(categories) |-> Phrase(categories[i])])
  IN  IF categories = <<>> THEN "No specific business classification found."
      ELSE IF explanations # <<>> THEN Join("; ", explanations)
      ELSE "Classified as: " \o Join(", ", categories)

(***************************************************************************)
(* utils.py: the column/formula analyzer and the document builder.         *)
(*                                                                         *)
(* A dataframe is the sequence of its columns, each [name, dtype, values]  *)
(* with one cell per row.  A cell is <<"str", s>>, <<"int", n>> (an int64  *)
(* value), <<"float", n>> (the float64 value n.0) or <<"nan">> (a missing  *)
(* value); numbers are naturals.  Every dataframe has a column of dtype    *)
(* object, so a row keeps each cell's own type.                            *)
(***************************************************************************)
StrCell(s) == <<"str", s>>
IntCell(n) == <<"int", n>>
FloatCell(n) == <<"float", n>>
NaN == <<"nan">>

\* pd.notnull(cell)
notnull(cell) == cell[1] # "nan"

\* str.upper() of one character
UpperChar(c) ==
  IF \E i \in 1..Len(ascii_lowercase) : CharAt(ascii_lowercase, i) = c
  THEN LET i == CHOOSE j \in 1..Len(ascii_lowercase) : CharAt(ascii_lowercase, j) = c
       IN  CharAt(ascii_uppercase, i)
  ELSE c

RECURSIVE Upper(_)
\* str.upper()
Upper(s) == IF s = "" THEN "" ELSE UpperChar(Head(s)) \o Upper(Tail(s))

RECURSIVE str_int(_)
\* str(n) of an int n >= 0
str_int(n) ==
  IF n < 10 THEN CharAt(digits, n + 1) ELSE str_int(n \div 10) \o CharAt(digits, (n % 10) + 1)

RECURSIVE group_thousands(_)
\* f"{n:,}" of an int n >= 0
group_thousands(n) ==
  IF n < 1000 THEN str_int(n)
  ELSE LET low == n % 1000
       IN  group_thousands(n \div 1000) \o ","
           \o (IF low < 10 THEN "00" ELSE IF low < 100 THEN "0" ELSE "") \o str_int(low)

\* str(value) of a cell that is not missing
str(cell) ==
  CASE cell[1] = "str" -> cell[2]
    [] cell[1] = "int" -> str_int(cell[2])
    [] cell[1] = "float" -> str_int(cell[2]) \o ".0"

\* df[col].dropna()
dropna(values) == SelectSeq(values, notnull)

\* Series.str.contains(pat) with its default regex=True: re.search(pat, value) per value
str_contains(sample_values, pat) ==
  [i \in 1..Len(sample_values) |-> Search(pat, sample_values[i])]

\* Series.any() and Series.sum() of a boolean Series
any(series) == \E i \in 1..Len(series) : series[i]
sum(series) == Cardinality({ i \in 1..Len(series) : series[i] })

\* s.endswith(suffix)
EndsWith(s, suffix) == Len(suffix) <= Len(s) /\ StartsAt(s, suffix, Len(s) - Len(suffix))

\* the type detect_column_types gives one column
column_type(column) ==
  LET col_lower == Lower(column.name)
      present == dropna(column.values)
      sample_values == [i \in 1..Len(present) |-> str(present[i])]
      numbers == { present[i][2] : i \in 1..Len(present) }
  IN  IF column.dtype \in {"object", "string"}
      THEN LET percentage_values ==
                 IF Len(sample_values) > 0 THEN sum(str_contains(sample_values, Lit("%"))) ELSE 0
               \* percentage_values > len(sample_values) * 0.5
               mostly_percentages == 2 * percentage_values > Len(sample_values)
           IN  IF /\ \/ Contains(col_lower, "percent")
                     \/ Contains(col_lower, "margin")
                     \/ Contains(col_lower, "growth")
                     \/ Contains(col_lower, "rate")
                     \/ EndsWith(col_lower, "%")
                  /\ mostly_percentages
               THEN "percentage"
               ELSE IF \/ Contains(col_lower, "date")
                       \/ Contains(col_lower, "year")
                       \/ Contains(col_lower, "month")
                       \/ Contains(col_lower, "quarter")
               THEN "date"
               ELSE IF any(str_contains(sample_values, Lit("=")))
               THEN "formula"
               ELSE "categorical"
      ELSE IF column.dtype \in {"float64", "int64"}
      THEN \* max() and min() skip missing values and are nan, which compares
           \* False, when there is no other value
           IF \/ /\ numbers # {}
                 /\ \A n \in numbers : n <= 1
                 /\ \A n \in numbers : n >= 0
              \/ Contains(col_lower, "percent")
           THEN "percentage"
           ELSE IF \/ Contains(col_lower, "amount")
                   \/ Contains(col_lower, "price")
                   \/ Contains(col_lower, "cost")
                   \/ Contains(col_lower, "revenue")
                   \/ Contains(col_lower, "income")
                   \/ Contains(col_lower, "profit")
                   \/ Contains(col_lower, "expense")
                   \/ any(str_contains(sample_values, EndOfString))
           THEN "currency"
           ELSE IF \/ Contains(col_lower, "ratio")
                   \/ Contains(col_lower, "turnover")
                   \/ Contains(col_lower, "roi")
                   \/ Contains(col_lower, "roe")
           THEN "ratio"
           ELSE "numeric"
      ELSE "text"

\* detect_column_types(df): column name -> type, in column order
detect_column_types(frame) ==
  [i \in 1..Len(frame) |-> [key |-> frame[i].name, value |-> column_type(frame[i])]]

RECURSIVE findall_from(_, _, _)
\* re.findall(r'\b(w1|w2|...)\b', s) from offset i: the matches left to right,
\* none overlapping another
findall_from(words, s, i) ==
  IF i > Len(s) THEN <<>>
  ELSE LET matching == SelectSeq(words,
                         LAMBDA w : Ends(Cat(<<WB, Lit(w), WB>>), s, i) # {})
       IN  IF matching # <<>>
           THEN <<matching[1]>> \o findall_from(words, s, i + Len(matching[1]))
           ELSE findall_from(words, s, i + 1)

\* extract_formula_info(value) of a str value
extract_formula_info(value) ==
  IF ~StartsAt(value, "=", 0) THEN <<>>
  ELSE LET functions ==
             findall_from(<<"SUM", "AVERAGE", "COUNT", "IF", "VLOOKUP", "INDEX", "MATCH",
                            "SUMIF", "COUNTIF">>, Upper(value), 0)
           operations ==
             (IF Contains(value, "+") THEN <<"addition">> ELSE <<>>)
             \o (IF Contains(value, "-") THEN <<"subtraction">> ELSE <<>>)
             \o (IF Contains(value, "*") THEN <<"multiplication">> ELSE <<>>)
             \o (IF Contains(value, "/") THEN <<"division">> ELSE <<>>)
       IN  << [key |-> "raw_formula", value |-> value] >>
           \o (IF functions # <<>> THEN << [key |-> "functions", value |-> functions] >>
               ELSE <<>>)
           \o (IF operations # <<>> THEN << [key |-> "operations", value |-> operations] >>
               ELSE <<>>)

\* create_business_context(col_name, value, col_type)
create_business_context(col_name, value, col_type) ==
  LET col_lower == Lower(col_name)
      is_number == value[1] \in {"int", "float"}
      formatted_value ==
        IF col_type = "percentage" /\ is_number
        THEN (IF value[2] <= 1 THEN str_int(100 * value[2]) \o ".0%" ELSE str(value) \o "%")
        ELSE IF col_type = "currency" /\ is_number
        THEN "$" \o group_thousands(value[2])
        ELSE str(value)
      context_parts ==
        (IF AnyTermIn(<<"revenue", "sales", "income">>, col_lower) THEN <<"revenue metric">>
         ELSE IF AnyTermIn(<<"cost", "expense", "overhead">>, col_lower) THEN <<"cost metric">>
         ELSE IF AnyTermIn(<<"profit", "margin", "ebitda">>, col_lower)
         THEN <<"profitability metric">>
         ELSE IF AnyTermIn(<<"growth", "change", "increase">>, col_lower)
         THEN <<"growth metric">>
         ELSE IF AnyTermIn(<<"roi", "roe", "turnover", "efficiency">>, col_lower)
         THEN <<"efficiency metric">>
         ELSE <<>>)
        \o (IF AnyTermIn(<<"yr1", "yr2", "year", "q1", "q2", "q3", "q4", "quarter">>, col_lower)
            THEN <<"time-series data">> ELSE <<>>)
      context_desc ==
        IF context_parts # <<>> THEN " (" \o Join(", ", context_parts) \o ")" ELSE ""
  IN  col_name \o ": " \o formatted_value \o context_desc

\* the columns of row i that hold a value, in column order
row_columns(frame, i) == SelectSeq(frame, LAMBDA column : notnull(column.values[i]))

\* the formula_info dict dataframe_to_documents builds for row i:
\* formula_info[col] = extract_formula_info(str(row[col])) for each formula column
row_formula_info(frame, column_types, i) ==
  LET formula_columns ==
        SelectSeq(row_columns(frame, i),
                  LAMBDA column : Get(column_types, column.name, "text") = "formula")
  IN  [n \in 1..Len(formula_columns) |->
         [key |-> formula_columns[n].name,
          value |-> extract_formula_info(str(formula_columns[n].values[i]))]]

\* row_text of row i
row_text_of(frame, column_types, i) ==
  LET columns == row_columns(frame, i)
  IN  Join(", ", [n \in 1..Len(columns) |->
                    create_business_context(columns[n].name, columns[n].values[i],
                                            Get(column_types, columns[n].name, "text"))])

\* the documents the loop body of dataframe_to_documents can make of row i
\* (row_index is i - 1: iterrows counts from 0)
row_documents(frame, i) ==
  LET column_types == detect_column_types(frame)
      row_text == row_text_of(frame, column_types, i)
  IN  { Document(row_text, i - 1, row_categories, column_types,
                 explain_classification(row_categories, row_text))
        : row_categories \in
            classify_metric(row_text, row_formula_info(frame, column_types, i), column_types) }

\* the number of rows of a dataframe
Rows(frame) == IF frame = <<>> THEN 0 ELSE Len(frame[1].values)

RECURSIVE documents_from(_, _)
documents_from(frame, i) ==
  IF i > Rows(frame) THEN { <<>> }
  ELSE { <<doc>> \o rest : doc \in row_documents(frame, i), rest \in documents_from(frame, i + 1) }

\* the possible results of dataframe_to_documents(df)
dataframe_to_documents(frame) == documents_from(frame, 1)

(***************************************************************************)
(* The state of one /query request: the request, the position of the       *)
(* handler, its local variables, the calls the index has received, and the *)
(* answer.  A local that is not assigned yet is <<>>.  `returned` is the   *)
(* return value of a direct call to the query processor (SpecQP) or to the *)
(* tagger and document builder (SpecTag, SpecDoc); `df` is the uploaded    *)
(* dataframe the document builder is called with (<<>>: no columns).       *)
(* `query_processor` is the module-level QueryProcessor of main.py and     *)
(* `requests` the handlers of the /query requests in flight together       *)
(* (SpecConcurrent); `file` and `docs` are the file of an /upload request  *)
(* and the documents built from it (SpecUpload).                           *)
(***************************************************************************)
VARIABLES pc, question, k, sanitized_question, query_analysis, search_terms, calls,
          all_results, unique_results, filtered_results, final_results, response,
          status_code, detail, returned, df, query_processor, requests, file, docs

vars == <<pc, question, k, sanitized_question, query_analysis, search_terms, calls,
          all_results, unique_results, filtered_results, final_results, response,
          status_code, detail, returned, df, query_processor, requests, file, docs>>

request == <<question, k>>
\* what outlives a request: the module-level query_processor of main.py, and
\* the requests in flight beside this one
shared == <<query_processor, requests>>
\* the file of an /upload request and the documents built from it
upload == <<file, docs>>
locals == <<sanitized_question, query_analysis, search_terms, all_results,
            unique_results, filtered_results, final_results>>

\* raise HTTPException(status_code=500, detail=str(e)), the handler's except clause
InternalError(message) ==
  /\ pc' = "failed"
  /\ response' = <<>>
  /\ status_code' = 500
  /\ detail' = message

\* sanitized_question = sanitize_query_input(query.question)
Sanitize ==
  /\ pc = "received"
  /\ ~sanitize_query_input(question).raised
  /\ sanitized_question' = sanitize_query_input(question).value
  /\ pc' = "sanitized"
  /\ UNCHANGED <<request, df, shared, upload, query_analysis, search_terms, calls, all_results, unique_results,
                 filtered_results, final_results, response, status_code, detail, returned>>

\* sanitize_query_input raises HTTPException(400), which the handler's
\* `except Exception` turns into a 500 whose detail is str(e)
SanitizeRejects ==
  /\ pc = "received"
  /\ sanitize_query_input(question).raised
  /\ InternalError("400: " \o sanitize_query_input(question).detail)
  /\ UNCHANGED <<request, df, shared, upload, locals, calls, returned>>

\* vectordb = load_vectorstore()
LoadVectorstore ==
  /\ pc = "sanitized"
  /\ pc' = "loaded"
  /\ UNCHANGED <<request, df, shared, upload, locals, calls, response, status_code, detail, returned>>

\* load_vectorstore() raises
LoadVectorstoreFails ==
  /\ pc = "sanitized"
  /\ InternalError("vectorstore error")
  /\ UNCHANGED <<request, df, shared, upload, locals, calls, returned>>

\* search_terms = [sanitized_question] + query_analysis.get('expanded_terms', [])
SearchTerms(sanitized, analysis) == <<sanitized>> \o analysis.expanded_terms

\* query_analysis = query_processor.process_query(sanitized_question)
ProcessQuery ==
  /\ pc = "loaded"
  /\ \E analysis \in process_query(sanitized_question) :
       /\ query_analysis' = analysis
       /\ search_terms' = SearchTerms(sanitized_question, analysis)
  /\ pc' = "searching"
  /\ UNCHANGED <<request, df, shared, upload, sanitized_question, calls, all_results, unique_results,
                 filtered_results, final_results, response, status_code, detail, returned>>

\* a search loop over every term
SearchedAll == search_terms

\* the terms of `for search_term in search_terms[:3]`
Searched == PySlice(search_terms, 3)

\* what the index may answer to similarity_search_with_score(term, k=n): any
\* list of at most n hits; `room` is what is left of the request's bound
SearchResults(n, room) ==
  LET longest == IF n >= 0 THEN Min(n, room) ELSE room
  IN  UNION { [1..m -> Hits] : m \in 0..longest }

\* one iteration of the search loop: the call, and all_results.extend(results)
SimilaritySearch(cap) ==
  /\ pc = "searching"
  /\ Len(calls) < Len(Searched)
  /\ \E results \in SearchResults(k * 2, cap - Len(all_results)) :
       all_results' = all_results \o results
  /\ calls' = Append(calls, [search_term |-> Searched[Len(calls) + 1], k |-> k * 2])
  /\ UNCHANGED <<pc, request, df, shared, upload, sanitized_question, query_analysis, search_terms, unique_results,
                 filtered_results, final_results, response, status_code, detail, returned>>

\* similarity_search_with_score raises (an index or embedding error, or a
\* result count the index refuses)
SimilaritySearchFails ==
  /\ pc = "searching"
  /\ Len(calls) < Len(Searched)
  /\ calls' = Append(calls, [search_term |-> Searched[Len(calls) + 1], k |-> k * 2])
  /\ InternalError("search error")
  /\ UNCHANGED <<request, df, shared, upload, locals, returned>>

\* the rest of the handler, from the end of the search loop to the return
Aggregate ==
  /\ pc = "searching"
  /\ Len(calls) = Len(Searched)
  /\ ~FilterRaises(all_results, query_analysis)
  /\ ~FormatRaises(all_results, query_analysis, k)
  /\ unique_results' = DedupLoop(all_results, <<>>)
  /\ filtered_results' = FilteredResults(all_results, query_analysis)
  /\ final_results' = FinalResults(all_results, query_analysis, k)
  /\ response' = FormatResponse(FinalResults(all_results, query_analysis, k), query_analysis, question)
  /\ pc' = "done"
  /\ status_code' = 200
  /\ UNCHANGED <<request, df, shared, upload, sanitized_question, query_analysis, search_terms, calls,
                 all_results, detail, returned>>

\* the rest of the handler raises TypeError on a decoded payload, which the
\* handler's except clause turns into a 500 (the locals are dropped)
AggregateFails ==
  /\ pc = "searching"
  /\ Len(calls) = Len(Searched)
  /\ FilterRaises(all_results, query_analysis) \/ FormatRaises(all_results, query_analysis, k)
  /\ InternalError(TypeErrorMessage(all_results, query_analysis))
  /\ UNCHANGED <<request, df, shared, upload, locals, calls, returned>>

\* one iteration of the search loop against an index that also holds the
\* malformed documents
SimilaritySearchStored(cap) ==
  /\ pc = "searching"
  /\ Len(calls) < Len(Searched)
  /\ \E m \in 0..(IF k * 2 >= 0 THEN Min(k * 2, cap - Len(all_results))
                   ELSE cap - Len(all_results)) :
       \E results \in [1..m -> StoredHits] : all_results' = all_results \o results
  /\ calls' = Append(calls, [search_term |-> Searched[Len(calls) + 1], k |-> k * 2])
  /\ UNCHANGED <<pc, request, df, shared, upload, sanitized_question, query_analysis, search_terms, unique_results,
                 filtered_results, final_results, response, status_code, detail, returned>>

Unassigned ==
  /\ unique_results = <<>>
  /\ filtered_results = <<>>
  /\ final_results = <<>>
  /\ response = <<>>
  /\ status_code = 0
  /\ detail = ""
  /\ returned = <<>>
  /\ df = <<>>
  /\ query_processor = QueryProcessor
  /\ requests = <<>>
  /\ file = <<>>
  /\ docs = <<>>

\* a request arrives
Init ==
  /\ pc = "received"
  /\ question \in Questions
  /\ k \in Ks
  /\ sanitized_question = ""
  /\ query_analysis = <<>>
  /\ search_terms = <<>>
  /\ calls = <<>>
  /\ all_results = <<>>
  /\ Unassigned

Next ==
  \/ Sanitize
  \/ SanitizeRejects
  \/ LoadVectorstore
  \/ LoadVectorstoreFails
  \/ ProcessQuery
  \/ SimilaritySearch(MaxHitsPerRequest)
  \/ SimilaritySearchFails
  \/ Aggregate

Spec == Init /\ [][Next]_vars

\* the handler at the head of its search loop, for a question without expansion
InitAgg ==
  /\ pc = "searching"
  /\ question \in AggQuestions
  /\ k \in Ks
  /\ sanitized_question = sanitize_query_input(question).value
  /\ query_analysis \in process_query(sanitized_question)
  /\ search_terms = SearchTerms(sanitized_question, query_analysis)
  /\ calls = <<>>
  /\ all_results = <<>>
  /\ Unassigned

NextAgg ==
  \/ SimilaritySearch(MaxHits)
  \/ SimilaritySearchFails
  \/ Aggregate

SpecAgg == InitAgg /\ [][NextAgg]_vars

\* questions with a category filter ("spending") and without ("find payments")
StoredQuestions == { "spending", "find payments" }

\* the handler at the head of its search loop, the index holding malformed
\* documents too
InitStored ==
  /\ pc = "searching"
  /\ question \in StoredQuestions
  /\ k \in Ks
  /\ sanitized_question = sanitize_query_input(question).value
  /\ query_analysis \in process_query(sanitized_question)
  /\ search_terms = SearchTerms(sanitized_question, query_analysis)
  /\ calls = <<>>
  /\ all_results = <<>>
  /\ Unassigned

NextStored ==
  \/ SimilaritySearchStored(MaxStoredHits)
  \/ Aggregate
  \/ AggregateFails

SpecStored == InitStored /\ [][NextStored]_vars

\* a direct call of one method of the query processor returns `value`
Return(method, value) ==
  /\ pc' = "returned"
  /\ returned' = [method |-> method, value |-> value]
  /\ UNCHANGED <<request, df, shared, upload, locals, calls, response, status_code, detail>>

CategorizeQuery ==
  /\ pc = "idle"
  /\ Return("categorize_query", categorize_query(question))

DetectQueryIntent ==
  /\ pc = "idle"
  /\ Return("detect_query_intent", detect_query_intent(question))

ExpandQueryTerms ==
  /\ pc = "idle"
  /\ \E terms \in expand_query_terms(question) : Return("expand_query_terms", terms)

CallProcessQuery ==
  /\ pc = "idle"
  /\ \E analysis \in process_query(question) : Return("process_query", analysis)

InitQP ==
  /\ pc = "idle"
  /\ question \in QPQuestions
  /\ k = 0
  /\ sanitized_question = ""
  /\ query_analysis = <<>>
  /\ search_terms = <<>>
  /\ calls = <<>>
  /\ all_results = <<>>
  /\ Unassigned

NextQP ==
  \/ CategorizeQuery
  \/ DetectQueryIntent
  \/ ExpandQueryTerms
  \/ CallProcessQuery

SpecQP == InitQP /\ [][NextQP]_vars

(***************************************************************************)
(* Direct calls of the row tagger (SpecTag) and of the column analyzer and *)
(* document builder on an uploaded dataframe (SpecDoc).                    *)
(***************************************************************************)
\* row texts the tagger is called with
TagTexts ==
  { "Profit Margin: 24.0%",
    "Cost: $10 (cost metric)",
    "Total: =SUM(A1:A10)/B1",
    "Peer: 3",
    "Cash Flow: 7",
    "" }

\* a row text with two concepts and two contexts
LongTagText ==
  "Revenue: $120,000 (revenue metric), Profit Margin: 24.0% (profitability metric)"

\* formula cells
Formulas == { "=SUM(A1:A10)/B1", "=A1-B1", "=IF(A1>0,A1*2,0)", "=sumif(A:A,1)+3", "=MAX(A:A)", "n/a" }

\* the formula_info arguments: none, one FormulaInfo, a map from column to FormulaInfo
TagFormulaInfos ==
  { <<>>,
    extract_formula_info("=SUM(A1:A10)/B1"),
    << [key |-> "Total", value |-> extract_formula_info("=SUM(A1:A10)/B1")] >> }

\* the column_types arguments
TagColumnTypes ==
  { <<>>,
    << [key |-> "Item", value |-> "categorical"], [key |-> "Cost", value |-> "currency"],
       [key |-> "Price", value |-> "currency"] >> }

\* the category lists explain_classification is called with
TagLists ==
  LET tags == {"revenue", "profitability", "cost", "liquidity", "currency", "ratio_calculation"}
  IN  UNION { Arrangements(S, Cardinality(S)) : S \in { T \in SUBSET tags : Cardinality(T) <= 2 } }

\* the argument lists classify_metric is called with
TagCalls ==
  (TagTexts \X TagFormulaInfos \X TagColumnTypes)
  \cup ({LongTagText} \X {<<>>} \X TagColumnTypes)

ExtractFormulaInfo ==
  /\ pc = "idle"
  /\ \E value \in Formulas :
       Return("extract_formula_info",
              [value |-> value, formula_info |-> extract_formula_info(value)])

ClassifyByFormula ==
  /\ pc = "idle"
  /\ \E value \in Formulas :
       Return("classify_by_formula",
              [formula_info |-> extract_formula_info(value),
               categories |-> classify_by_formula(extract_formula_info(value))])

ClassifyMetric ==
  /\ pc = "idle"
  /\ \E call \in TagCalls :
       \E categories \in classify_metric(call[1], call[2], call[3]) :
         Return("classify_metric",
                [row_text |-> call[1], formula_info |-> call[2],
                 column_types |-> call[3], categories |-> categories])

ExplainClassification ==
  /\ pc = "idle"
  /\ \E categories \in TagLists, row_text \in TagTexts \cup {LongTagText} :
       Return("explain_classification",
              [categories |-> categories, row_text |-> row_text,
               explanation |-> explain_classification(categories, row_text)])

InitTag ==
  /\ pc = "idle"
  /\ question = ""
  /\ k = 0
  /\ sanitized_question = ""
  /\ query_analysis = <<>>
  /\ search_terms = <<>>
  /\ calls = <<>>
  /\ all_results = <<>>
  /\ Unassigned

NextTag ==
  \/ ExtractFormulaInfo
  \/ ClassifyByFormula
  \/ ClassifyMetric
  \/ ExplainClassification

SpecTag == InitTag /\ [][NextTag]_vars

\* the uploaded dataframes: a label column, a numeric column and, in most, a
\* column of text cells, two rows each
LabelColumn == [name |-> "Item", dtype |-> "object", values |-> <<StrCell("rent"), StrCell("sales")>>]

NumericColumns ==
  [name : {"roi", "Units", "Cost", "Percent Done", "Debt Ratio"},
   dtype : {"int64"},
   values : { <<IntCell(0), IntCell(1)>>, <<IntCell(5), IntCell(7)>>, <<IntCell(1), IntCell(1200)>> }]
  \cup
  [name : {"roi", "Units", "Cost", "Percent Done", "Debt Ratio"},
   dtype : {"float64"},
   values : { <<NaN, NaN>>, <<FloatCell(2), NaN>> }]

TextColumns ==
  { [name |-> "Total", dtype |-> "object",
     values |-> <<StrCell("=SUM(A1:A10)/B1"), StrCell("=A1-B1")>>],
    [name |-> "Total", dtype |-> "object",
     values |-> <<StrCell("=IF(A1>0,A1*2,0)"), StrCell("n/a")>>],
    [name |-> "Growth Rate", dtype |-> "object",
     values |-> <<StrCell("12%"), StrCell("=AVERAGE(B2:B9)")>>],
    [name |-> "Note", dtype |-> "object", values |-> <<StrCell("paid"), NaN>>] }

Sheets ==
  { <<LabelColumn, numeric>> : numeric \in NumericColumns }
  \cup { <<LabelColumn, numeric, text>> : numeric \in NumericColumns, text \in TextColumns }

DetectColumnTypes ==
  /\ pc = "idle"
  /\ Return("detect_column_types", detect_column_types(df))

DataframeToDocuments ==
  /\ pc = "idle"
  /\ \E built \in dataframe_to_documents(df) : Return("dataframe_to_documents", built)

InitDoc ==
  /\ pc = "idle"
  /\ question = ""
  /\ k = 0
  /\ sanitized_question = ""
  /\ query_analysis = <<>>
  /\ search_terms = <<>>
  /\ calls = <<>>
  /\ all_results = <<>>
  /\ unique_results = <<>>
  /\ filtered_results = <<>>
  /\ final_results = <<>>
  /\ response = <<>>
  /\ status_code = 0
  /\ detail = ""
  /\ returned = <<>>
  /\ df \in Sheets
  /\ query_processor = QueryProcessor
  /\ requests = <<>>
  /\ file = <<>>
  /\ docs = <<>>

NextDoc ==
  \/ DetectColumnTypes
  \/ DataframeToDocuments

SpecDoc == InitDoc /\ [][NextDoc]_vars

(***************************************************************************)
(* The aggregation claims, checked under SpecAgg.                          *)
(***************************************************************************)
RowOf(hit) == hit.doc.metadata.row_index

\* the least element of a non-empty set of integers
Least(S) == CHOOSE x \in S : \A y \in S : x <= y

\* the positions of the hit stream that hold a hit of the row
PositionsOf(row) == { i \in 1..Len(all_results) : RowOf(all_results[i]) = row }

\* the least score the hit stream has for the row
MinScoreOf(row) == Least({ all_results[i].score : i \in PositionsOf(row) })

\* the first n entries of a list; none when n < 1
FirstN(lst, n) == SubSeq(lst, 1, Min(n, Len(lst)))

\* the deduplicated, score-sorted list before the category filter
Ranked == SortByScore(Values(DedupLoop(all_results, <<>>)))

FilterCategories == query_analysis.processing_result.filter_categories

\* the entries of Ranked that have a category of the filter
Matching == SelectSeq(Ranked, LAMBDA hit : MatchesFilter(hit, FilterCategories))

\* C1: the final result list has at most one hit per row_index, and the hit
\* kept for a row_index is a hit of the stream with the minimum score that
\* the stream has for that row_index; the response shows that score.
DedupKeepsMinimumScore ==
  pc = "done" =>
    /\ \A i, j \in 1..Len(final_results) :
         i # j => RowOf(final_results[i]) # RowOf(final_results[j])
    /\ \A i \in 1..Len(final_results) :
         /\ final_results[i] \in Range(all_results)
         /\ final_results[i].score = MinScoreOf(RowOf(final_results[i]))
    /\ Len(response.results) = Len(final_results)
    /\ \A i \in 1..Len(final_results) :
         /\ response.results[i].row_index = RowOf(final_results[i])
         /\ response.results[i].score = round3(MinScoreOf(RowOf(final_results[i])))

\* a row whose later hit has the lower score is in the final list
DedupKeepsMinimumScoreWitness ==
  /\ pc = "done"
  /\ \E i, j \in 1..Len(all_results) :
       /\ i < j
       /\ RowOf(all_results[i]) = RowOf(all_results[j])
       /\ all_results[j].score < all_results[i].score
       /\ \E n \in 1..Len(final_results) : RowOf(final_results[n]) = RowOf(all_results[i])

\* C2: when filter_categories is non-empty and no deduplicated hit has one of
\* its categories, the final list is the first k entries of the deduplicated,
\* score-sorted list, and it is not empty when there is a hit and k >= 1.
FilterFallbackIsFirstK ==
  (pc = "done" /\ FilterCategories # <<>> /\ Matching = <<>>) =>
    /\ final_results = FirstN(Ranked, k)
    /\ (all_results # <<>> /\ k >= 1) => final_results # <<>>

\* no hit has a category of the filter, and the fall back is cut to k
FilterFallbackWitness ==
  /\ pc = "done"
  /\ FilterCategories # <<>>
  /\ Matching = <<>>
  /\ k = 1
  /\ Len(Ranked) = 2
  /\ final_results = <<Ranked[1]>>

\* the same, for the requests whose k is not negative
FilterFallbackIsFirstKNonNegative == k >= 0 => FilterFallbackIsFirstK

\* C3: when filter_categories is non-empty and a deduplicated hit has one of
\* its categories, every hit of the final list has one, and the final list
\* is the first k of the matching hits in score order.
FilterBeforeTruncate ==
  (pc = "done" /\ FilterCategories # <<>> /\ Matching # <<>>) =>
    /\ \A i \in 1..Len(final_results) : MatchesFilter(final_results[i], FilterCategories)
    /\ final_results = FirstN(Matching, k)

\* the best hit has no category of the filter, two others have one, and the
\* final list is the better of these two
FilterBeforeTruncateWitness ==
  /\ pc = "done"
  /\ k = 1
  /\ Len(Ranked) = 3
  /\ ~MatchesFilter(Ranked[1], FilterCategories)
  /\ Len(Matching) = 2
  /\ final_results = <<Matching[1]>>

\* the same, for the requests whose k is not negative
FilterBeforeTruncateNonNegative == k >= 0 => FilterBeforeTruncate

\* C4: the final list is in ascending score order, and of two rows with the
\* same kept score the one whose row_index came first in the stream is first.
SortedWithTiesInFirstSeenOrder ==
  pc = "done" =>
    \A i, j \in 1..Len(final_results) :
      i < j =>
        /\ final_results[i].score <= final_results[j].score
        /\ final_results[i].score = final_results[j].score =>
             Least(PositionsOf(RowOf(final_results[i]))) < Least(PositionsOf(RowOf(final_results[j])))

\* two rows tie in the final list, and the first got its kept score from a
\* duplicate that came after the first hit of the second
SortedWithTiesWitness ==
  /\ pc = "done"
  /\ \E i, j \in 1..Len(final_results) :
       /\ i < j
       /\ final_results[i].score = final_results[j].score
       /\ \E a, b, c \in 1..Len(all_results) :
            /\ a < b /\ b < c
            /\ RowOf(all_results[a]) = RowOf(final_results[i])
            /\ RowOf(all_results[b]) = RowOf(final_results[j])
            /\ RowOf(all_results[c]) = RowOf(final_results[i])
            /\ all_results[c].score < all_results[a].score

\* C5: the response has at most k results, exactly min(k, number of hits
\* left by deduplication and category filtering), and total_results_found is
\* the length of the results list.
ResponseHasMinKResults ==
  pc = "done" =>
    /\ Len(response.results) <= k
    /\ Len(response.results) = Min(k, Len(filtered_results))
    /\ response.total_results_found = Len(response.results)

\* more hits than k are left and the response has k of them
ResponseHasMinKResultsWitness ==
  /\ pc = "done"
  /\ k = 1
  /\ Len(filtered_results) = 2
  /\ Len(response.results) = 1

\* the same, for the requests whose k is not negative
ResponseHasMinKResultsNonNegative == k >= 0 => ResponseHasMinKResults

(***************************************************************************)
(* The search fan-out claims, checked under Spec.                          *)
(***************************************************************************)
\* C6: a request makes at most 3 search calls, each for 2*k results, and
\* the first call searches the sanitized question.
AtMostThreeSearchCalls ==
  /\ Len(calls) <= 3
  /\ \A i \in 1..Len(calls) : calls[i].k = 2 * k
  /\ calls # <<>> => calls[1].search_term = sanitize_query_input(question).value

\* a request whose analysis has more than 2 expanded terms has answered
\* after 3 calls
AtMostThreeSearchCallsWitness ==
  /\ pc = "done"
  /\ Len(query_analysis.expanded_terms) > 2
  /\ Len(calls) = 3
  /\ calls[3].k = 2 * k

\* C7: the terms a request searches are pairwise distinct: no call repeats
\* the text of another.
SearchedTermsAreDistinct ==
  \A i, j \in 1..Len(calls) : i # j => calls[i].search_term # calls[j].search_term

(***************************************************************************)
(* The query processor claims, checked under SpecQP.                       *)
(***************************************************************************)
\* C8: term expansion returns at most 5 distinct variants, the original
\* query among them and first.
ExpansionListsOriginalFirst ==
  (pc = "returned" /\ returned.method = "expand_query_terms") =>
    /\ Len(returned.value) <= 5
    /\ \A i, j \in 1..Len(returned.value) : i # j => returned.value[i] # returned.value[j]
    /\ question \in Range(returned.value)
    /\ returned.value[1] = question

\* the part of C8 that holds: at most 5 variants, all distinct
ExpansionHasAtMostFiveDistinct ==
  (pc = "returned" /\ returned.method = "expand_query_terms") =>
    /\ Len(returned.value) <= 5
    /\ \A i, j \in 1..Len(returned.value) : i # j => returned.value[i] # returned.value[j]

\* 2 * (patterns of the category that match) + (keywords of it in the query)
IntentScore(n, query) ==
  2 * Cardinality({ p \in 1..Len(FINANCIAL_INTENT_PATTERNS[n].patterns) :
                      Search(FINANCIAL_INTENT_PATTERNS[n].patterns[p], Lower(query)) })
    + Cardinality({ w \in 1..Len(FINANCIAL_INTENT_PATTERNS[n].keywords) :
                      Contains(Lower(query), FINANCIAL_INTENT_PATTERNS[n].keywords[w]) })

\* C9: every category's score is 2 per matching pattern plus 1 per contained
\* keyword; the primary intent is the first declared category with the top
\* score and the confidence is that score over the sum of the scores; when
\* every score is 0 the intent is general_query with confidence 0.
IntentIsFirstTopScore ==
  (pc = "returned" /\ returned.method = "detect_query_intent") =>
    LET categories == 1..Len(FINANCIAL_INTENT_PATTERNS)
        score == [n \in categories |-> IntentScore(n, question)]
        total == SeqSum(score)
        top == -Least({ -score[n] : n \in categories })
        first == Least({ n \in categories : score[n] = top })
        intent == returned.value
    IN  /\ Len(FINANCIAL_INTENT_PATTERNS) = 6
        /\ \A n \in categories :
             score[n] > 0 <=>
               [key |-> FINANCIAL_INTENT_PATTERNS[n].name, value |-> score[n]] \in Range(intent.all_intents)
        /\ Len(intent.all_intents) = Cardinality({ n \in categories : score[n] > 0 })
        /\ IF total = 0
           THEN intent.primary_intent = "general_query" /\ intent.confidence[1] = 0
           ELSE /\ intent.primary_intent = FINANCIAL_INTENT_PATTERNS[first].name
                /\ intent.confidence[1] * total = intent.confidence[2] * top

\* two categories tie at the top and the one declared first is the intent
IntentTieWitness ==
  /\ pc = "returned"
  /\ returned.method = "detect_query_intent"
  /\ Len(returned.value.all_intents) = 2
  /\ returned.value.all_intents[1].value = returned.value.all_intents[2].value
  /\ returned.value.primary_intent = returned.value.all_intents[1].key
  /\ returned.value.confidence = <<1, 2>>

\* the patterns of a family that match the query
FamilyCount(patterns, query) ==
  Cardinality({ p \in 1..Len(patterns) : Search(patterns[p], Lower(query)) })

\* C10: the primary category is the family with the most matches, ties going
\* to conceptual, then functional, then comparative; the confidence is the
\* top count over the total, 0 when the total is 0; is_hybrid says that more
\* than one family has a match; all of it is a function of the query.
CategoryIsFirstTopCount ==
  (pc = "returned" /\ returned.method = "categorize_query") =>
    LET conceptual == FamilyCount(conceptual_patterns, question)
        functional == FamilyCount(functional_patterns, question)
        comparative == FamilyCount(comparative_patterns, question)
        total == conceptual + functional + comparative
        top == -Least({ -conceptual, -functional, -comparative })
        category == returned.value
    IN  /\ category.primary_category =
             IF conceptual = top THEN "conceptual"
             ELSE IF functional = top THEN "functional"
             ELSE "comparative"
        /\ IF total = 0
           THEN category.confidence[1] = 0
           ELSE category.confidence[1] * total = category.confidence[2] * top
        /\ category.is_hybrid <=>
             Cardinality({ n \in 1..3 : <<conceptual, functional, comparative>>[n] > 0 }) > 1

\* two families tie with 2 matches each and the one declared first wins
CategoryTieWitness ==
  /\ pc = "returned"
  /\ returned.method = "categorize_query"
  /\ returned.value.is_hybrid
  /\ returned.value.scores[2].value = 2
  /\ returned.value.scores[3].value = 2
  /\ returned.value.primary_category = "functional"
  /\ returned.value.confidence = <<1, 2>>

\* what a direct call of process_query returned
Analysis == returned.value

ProcessQueryReturned == pc = "returned" /\ returned.method = "process_query"

\* C11: the four conceptual intents give conceptual processing labelled
\* financial_semantic_search, transaction_search gives functional processing
\* labelled transaction_search, comparison gives comparative processing
\* labelled comparative_analysis, and general_query goes by the legacy
\* category with the default labels; an intent wins over the legacy category.
StrategyFollowsIntentFirst ==
  ProcessQueryReturned =>
    LET intent == Analysis.intent_analysis.primary_intent
        legacy == Analysis.categorization.primary_category
        chosen == <<Analysis.processing_result.type, Analysis.processing_result.search_strategy>>
    IN  CASE intent \in {"spending_analysis", "budgeting", "trend_analysis", "category_analysis"} ->
               chosen = <<"conceptual", "financial_semantic_search">>
          [] intent = "transaction_search" -> chosen = <<"functional", "transaction_search">>
          [] intent = "comparison" -> chosen = <<"comparative", "comparative_analysis">>
          [] intent = "general_query" /\ legacy = "conceptual" ->
               chosen = <<"conceptual", "semantic_similarity">>
          [] intent = "general_query" /\ legacy = "functional" ->
               chosen = <<"functional", "formula_analysis">>
          [] intent = "general_query" /\ legacy = "comparative" ->
               chosen = <<"comparative", "contextual_analysis">>
          [] OTHER -> FALSE

\* an intent with conceptual processing wins over a legacy category that is
\* comparative with confidence 1
StrategyFollowsIntentWitness ==
  /\ ProcessQueryReturned
  /\ Analysis.intent_analysis.primary_intent = "trend_analysis"
  /\ Analysis.categorization.primary_category = "comparative"
  /\ Analysis.categorization.confidence = <<1, 1>>
  /\ Analysis.processing_result.type = "conceptual"

\* the members of the hierarchy groups that hold one of the concepts
GroupMembersOf(concepts) ==
  UNION { Range(get_business_concept_hierarchy[g].sub_concepts) :
            g \in { h \in 1..Len(get_business_concept_hierarchy) :
                      Range(get_business_concept_hierarchy[h].sub_concepts) \cap concepts # {} } }

\* C12: in conceptual processing the set of filter_categories is the
\* extracted concepts together with every member of every hierarchy group
\* that holds an extracted concept.
ConceptualFilterIsConceptsAndGroups ==
  (ProcessQueryReturned /\ Analysis.processing_result.type = "conceptual") =>
    LET concepts == Range(Analysis.extracted_concepts)
    IN  /\ Range(Analysis.processing_result.filter_categories) = concepts \cup GroupMembersOf(concepts)
        /\ Range(Analysis.processing_result.target_concepts) = concepts

\* one concept is in two groups and brings the members of both, the other
\* is in no group and brings only itself
ConceptualFilterWitness ==
  /\ ProcessQueryReturned
  /\ Analysis.processing_result.type = "conceptual"
  /\ Range(Analysis.extracted_concepts) = {"efficiency", "tax"}
  /\ Range(Analysis.processing_result.filter_categories) =
       {"efficiency", "tax", "profitability", "revenue", "cost", "productivity", "utilization"}

\* the function types whose keywords the query has
DetectedFunctionTypes(query) ==
  { type \in {"percentage", "aggregation", "lookup", "conditional"} :
      \E term \in CASE type = "percentage" -> {"percentage", "%", "percent"}
                    [] type = "aggregation" -> {"average", "mean", "sum", "total", "add"}
                    [] type = "lookup" -> {"vlookup", "lookup", "index", "match"}
                    [] type = "conditional" -> {"if", "conditional", "condition"} :
        Contains(Lower(query), term) }

\* C13: in functional processing filter_categories has exactly one entry
\* formula_<type> for each function type detected in the query, and nothing
\* else.
FunctionalFilterHasOneEntryPerType ==
  (ProcessQueryReturned /\ Analysis.processing_result.type = "functional") =>
    LET filter == Analysis.processing_result.filter_categories
    IN  /\ Range(filter) = { "formula_" \o type : type \in DetectedFunctionTypes(question) }
        /\ \A i, j \in 1..Len(filter) : i # j => filter[i] # filter[j]

\* the part of C13 that holds: the entries are those of the detected types
FunctionalFilterIsOfDetectedTypes ==
  (ProcessQueryReturned /\ Analysis.processing_result.type = "functional") =>
    Range(Analysis.processing_result.filter_categories) =
      { "formula_" \o type : type \in DetectedFunctionTypes(question) }

\* two types are detected, each through one keyword group
FunctionalFilterWitness ==
  /\ ProcessQueryReturned
  /\ Analysis.processing_result.type = "functional"
  /\ Analysis.processing_result.filter_categories = <<"formula_aggregation", "formula_conditional">>

\* C14: comparative processing returns the filter_categories planning_metrics,
\* time_series and benchmark_analysis, whichever sub-types were detected.
ComparativeFilterIsAllThree ==
  (ProcessQueryReturned /\ Analysis.processing_result.type = "comparative") =>
    /\ Analysis.processing_result.filter_categories =
         <<"planning_metrics", "time_series", "benchmark_analysis">>
    /\ Range(Analysis.processing_result.comparison_types) \subseteq {"planning", "temporal", "benchmark"}

\* no sub-type is detected and the three categories are returned
ComparativeFilterWitness ==
  /\ ProcessQueryReturned
  /\ Analysis.processing_result.type = "comparative"
  /\ Analysis.processing_result.comparison_types = <<>>
  /\ Len(Analysis.processing_result.filter_categories) = 3

\* the temporal groups one of whose patterns matches the query
MatchedTemporalGroups(query) ==
  { g \in 1..Len(TEMPORAL_PATTERNS) :
      \E p \in 1..Len(TEMPORAL_PATTERNS[g].patterns) :
        Search(TEMPORAL_PATTERNS[g].patterns[p], Lower(query)) }

\* C15: has_temporal_context says that one of the groups relative_time,
\* specific_periods, time_ranges collected a match; temporal_types lists the
\* non-empty groups; and the processing result carries temporal_filters and
\* temporal_types exactly when has_temporal_context is true.
TemporalAttachedIffContext ==
  ProcessQueryReturned =>
    LET context == Analysis.temporal_context
        groups == MatchedTemporalGroups(question)
        names == [g \in 1..Len(TEMPORAL_PATTERNS) |-> TEMPORAL_PATTERNS[g].name]
        result == Analysis.processing_result
    IN  /\ names = <<"relative_time", "specific_periods", "time_ranges">>
        /\ context.has_temporal_context <=> groups # {}
        /\ context.temporal_types = SelectSeq(names, LAMBDA name : \E g \in groups : names[g] = name)
        /\ \A g \in 1..Len(names) :
             /\ context.temporal_entities[g].key = names[g]
             /\ context.temporal_entities[g].value # <<>> <=> g \in groups
        /\ "temporal_filters" \in DOMAIN result <=> context.has_temporal_context
        /\ "temporal_types" \in DOMAIN result <=> context.has_temporal_context
        /\ context.has_temporal_context =>
             /\ result.temporal_filters = context.temporal_entities
             /\ result.temporal_types = context.temporal_types

\* a functional processing result carries the temporal keys
TemporalAttachedWitness ==
  /\ ProcessQueryReturned
  /\ Analysis.processing_result.type = "functional"
  /\ Analysis.temporal_context.has_temporal_context
  /\ Analysis.processing_result.temporal_types = <<"relative_time">>

\* two groups collect a match
TemporalTwoGroupsReached ==
  /\ ProcessQueryReturned
  /\ Analysis.temporal_context.temporal_types = <<"specific_periods", "time_ranges">>

(***************************************************************************)
(* The aggregation and the temporal filters, checked under SpecAgg.        *)
(***************************************************************************)
\* the analysis that differs from the given one only in that its processing
\* result has no temporal_filters and no temporal_types
WithoutTemporal(analysis) ==
  [analysis EXCEPT !.processing_result =
     [key \in DOMAIN @ \ {"temporal_filters", "temporal_types"} |-> @[key]]]

\* C16: the request's answer is the answer the same hit stream and k get
\* with the analysis that has no temporal_filters and no temporal_types:
\* the same hits with the same scores in the same order.
TemporalFiltersAreAdvisory ==
  pc = "done" =>
    /\ final_results = FinalResults(all_results, WithoutTemporal(query_analysis), k)
    /\ response.results =
         FormatResponse(FinalResults(all_results, WithoutTemporal(query_analysis), k),
                        WithoutTemporal(query_analysis), question).results

\* an analysis with temporal filters, whose category filter drops a hit
TemporalFiltersAreAdvisoryWitness ==
  /\ pc = "done"
  /\ "temporal_filters" \in DOMAIN query_analysis.processing_result
  /\ WithoutTemporal(query_analysis) # query_analysis
  /\ final_results # <<>>
  /\ Len(filtered_results) < Len(unique_results)
(***************************************************************************)
(* The document builder and row tagger claims, checked under SpecDoc and   *)
(* SpecTag.                                                                *)
(***************************************************************************)
DocumentsReturned == pc = "returned" /\ returned.method = "dataframe_to_documents"

\* the cells of row i that start with '=' and stand in a formula-typed column
FormulaCells(frame, i) ==
  { n \in 1..Len(frame) :
      /\ Get(detect_column_types(frame), frame[n].name, "text") = "formula"
      /\ notnull(frame[n].values[i])
      /\ StartsAt(str(frame[n].values[i]), "=", 0) }

\* the tags the function taxonomy and the operation table give one FormulaInfo
TagsOfFormulaInfo(info) ==
  LET functions == Get(info, "functions", <<>>)
      operations == Get(info, "operations", <<>>)
  IN  { "formula_" \o FORMULA_FUNCTIONS[c].name :
          c \in { j \in 1..Len(FORMULA_FUNCTIONS) :
                    \E f \in Range(functions) :
                      Lower(f) \in Range(FORMULA_FUNCTIONS[j].func_list) } }
      \cup (IF "division" \in Range(operations) THEN {"ratio_calculation"} ELSE {})
      \cup (IF "subtraction" \in Range(operations) THEN {"variance_calculation"} ELSE {})
      \cup (IF "multiplication" \in Range(operations) THEN {"scaling_calculation"} ELSE {})

\* C17: the document of a row that holds a formula cell in a formula-typed
\* column carries formula_<c> for each taxonomy category c of the cell's
\* functions and the operation tag of each of its operations.
FormulaTagsReachRowDocument ==
  DocumentsReturned =>
    \A i \in 1..Len(returned.value) : \A n \in FormulaCells(df, i) :
      TagsOfFormulaInfo(extract_formula_info(str(df[n].values[i])))
        \subseteq Range(json_loads(returned.value[i].metadata.categories_json))

\* the row of '=SUM(A1:A10)/B1' is built, and its cell's FormulaInfo has
\* functions [SUM] and operations [division]
FormulaRowWitness ==
  /\ DocumentsReturned
  /\ \E n \in FormulaCells(df, 1) :
       /\ df[n].values[1] = StrCell("=SUM(A1:A10)/B1")
       /\ Get(extract_formula_info(str(df[n].values[1])), "functions", <<>>) = <<"SUM">>
       /\ Get(extract_formula_info(str(df[n].values[1])), "operations", <<>>) = <<"division">>
       /\ TagsOfFormulaInfo(extract_formula_info(str(df[n].values[1])))
            = {"formula_aggregation", "ratio_calculation"}
  /\ "formula_aggregation" \notin Range(json_loads(returned.value[1].metadata.categories_json))
  /\ "ratio_calculation" \notin Range(json_loads(returned.value[1].metadata.categories_json))

ClassifyMetricReturned == pc = "returned" /\ returned.method = "classify_metric"

\* C18: classify_metric gives the same category set whenever it is called with
\* the same row text, formula info and column types; the list it returns has
\* no tag twice, and its tags are the union of the six tag sources (lexicon
\* concepts, compound terms, context patterns, formula tags, column types,
\* special business logic).
TaggingIsPureAndDeduplicated ==
  ClassifyMetricReturned =>
    LET call == returned.value
        categories == call.categories
        text == Lower(call.row_text)
    IN  /\ \A i, j \in 1..Len(categories) : i # j => categories[i] # categories[j]
        /\ Range(categories) =
             Range(business_concept_tags(text)) \cup extract_business_synonyms(text)
             \cup Range(context_tags(text)) \cup Range(formula_tags(call.formula_info))
             \cup Range(column_type_tags(call.column_types)) \cup Range(special_tags(text))
        /\ \A again \in classify_metric(call.row_text, call.formula_info, call.column_types) :
             Range(again) = Range(categories)

\* a row whose concept profitability matches as a primary term and as a
\* compound term, tagged with a FormulaInfo and two currency columns: the
\* collected list is longer than the one returned
TaggingDeduplicatesWitness ==
  /\ ClassifyMetricReturned
  /\ Contains(Lower(returned.value.row_text), "profit margin")
  /\ "profitability" \in Range(returned.value.categories)
  /\ "formula_aggregation" \in Range(returned.value.categories)
  /\ "currency" \in Range(returned.value.categories)
  /\ Len(collected_categories(returned.value.row_text, returned.value.formula_info,
                              returned.value.column_types)) > Len(returned.value.categories) + 1

ColumnTypesReturned == pc = "returned" /\ returned.method = "detect_column_types"

\* a numeric column with a value outside [0, 1], no 'percent' and no currency
\* term in its name, and no '$' character in any of its values
PlainNumericColumn(column) ==
  LET col_lower == Lower(column.name)
      present == dropna(column.values)
  IN  /\ column.dtype \in {"int64", "float64"}
      /\ \E i \in 1..Len(present) : present[i][2] < 0 \/ present[i][2] > 1
      /\ ~Contains(col_lower, "percent")
      /\ ~AnyTermIn(<<"amount", "price", "cost", "revenue", "income", "profit", "expense">>,
                    col_lower)
      /\ \A i \in 1..Len(present) : ~Contains(str(present[i]), "$")

\* C19: a numeric column with a value outside [0, 1], no 'percent' and no
\* currency term in its name and no '$' in its values is typed ratio when its
\* name contains ratio, turnover, roi or roe, and numeric otherwise.
NumericColumnIsRatioOrNumeric ==
  ColumnTypesReturned =>
    \A n \in 1..Len(df) :
      PlainNumericColumn(df[n]) =>
        returned.value[n].value =
          IF AnyTermIn(<<"ratio", "turnover", "roi", "roe">>, Lower(df[n].name))
          THEN "ratio" ELSE "numeric"

\* the column roi with the values 5 and 7 is typed currency
NumericColumnIsCurrencyWitness ==
  /\ ColumnTypesReturned
  /\ df[2].name = "roi"
  /\ df[2].values = <<IntCell(5), IntCell(7)>>
  /\ PlainNumericColumn(df[2])
  /\ returned.value[2] = [key |-> "roi", value |-> "currency"]

\* no numeric column that holds a value is typed ratio or numeric
NoValueInRatioOrNumericColumn ==
  ColumnTypesReturned =>
    \A n \in 1..Len(df) :
      (df[n].dtype \in {"int64", "float64"} /\ returned.value[n].value \in {"ratio", "numeric"})
        => dropna(df[n].values) = <<>>

\* a numeric column without a value is typed ratio, another numeric
EmptyNumericColumnsWitness ==
  /\ ColumnTypesReturned
  /\ dropna(df[2].values) = <<>>
  /\ returned.value[2].value \in {"ratio", "numeric"}

ExplanationReturned == pc = "returned" /\ returned.method = "explain_classification"

\* the canned phrases of a category (none: the category has no canned phrase)
CannedPhrases(category) ==
  CASE category = "profitability" ->
         {"Contains margin calculations (profitability metric)",
          "Contains profit-related data (profitability metric)"}
    [] category = "revenue" -> {"Contains revenue/sales data (top-line metric)"}
    [] category = "cost" -> {"Contains cost/expense data (operational metric)"}
    [] category = "growth" -> {"Contains growth or change metrics (performance indicator)"}
    [] category = "efficiency" -> {"Contains efficiency ratios (performance metric)"}
    [] category = "percentage" -> {"Contains percentage-based calculations"}
    [] category = "ratio_calculation" -> {"Contains ratio calculations (analytical metric)"}
    [] category = "budgeting" -> {"Contains budget or planning data"}
    [] category = "variance" -> {"Contains variance or comparison analysis"}
    [] category = "investment" -> {"Contains investment or asset data"}
    [] category = "tax" -> {"Contains tax-related information"}
    [] category = "valuation" -> {"Contains valuation or market data"}
    [] OTHER -> {}

\* the explanation shows the category: by one of its canned phrases, or by
\* its name in the list rendering
Reflects(explanation, category) ==
  \/ \E phrase \in CannedPhrases(category) : Contains(explanation, phrase)
  \/ StartsAt(explanation, "Classified as: ", 0) /\ Contains(explanation, category)

\* C20: an empty category list gives the fixed message; the explanation of a
\* non-empty list reflects every category of the list, a category with a
\* canned phrase by that phrase and any other by the list rendering; the
\* explanation is never the empty string.
ExplanationReflectsEveryCategory ==
  ExplanationReturned =>
    LET categories == returned.value.categories
        explanation == returned.value.explanation
    IN  /\ categories = <<>> => explanation = "No specific business classification found."
        /\ \A i \in 1..Len(categories) : Reflects(explanation, categories[i])
        /\ explanation # ""

\* the explanation of ['revenue', 'liquidity'] is the phrase of revenue alone
ExplanationDropsCategoryWitness ==
  /\ ExplanationReturned
  /\ returned.value.categories = <<"revenue", "liquidity">>
  /\ returned.value.explanation = "Contains revenue/sales data (top-line metric)"

\* what holds of every explanation: the fixed message for the empty list, the
\* phrases joined with '; ' when some category has one for this row, else the
\* list rendering; never the empty string
ExplanationIsPhrasesOrRendering ==
  ExplanationReturned =>
    LET categories == returned.value.categories
        explanation == returned.value.explanation
        text_lower == Lower(returned.value.row_text)
        PhraseOf(category) ==
          IF category = "profitability"
          THEN (IF Contains(text_lower, "margin")
                THEN <<"Contains margin calculations (profitability metric)">>
                ELSE IF Contains(text_lower, "profit")
                THEN <<"Contains profit-related data (profitability metric)">>
                ELSE <<>>)
          ELSE IF CannedPhrases(category) = {} THEN <<>>
          ELSE <<CHOOSE phrase \in CannedPhrases(category) : TRUE>>
        phrases == ConcatAll([i \in 1..Len(categories) |-> PhraseOf(categories[i])])
    IN  /\ explanation # ""
        /\ categories = <<>> => explanation = "No specific business classification found."
        /\ (categories # <<>> /\ phrases # <<>>) => explanation = Join("; ", phrases)
        /\ (categories # <<>> /\ phrases = <<>>) =>
             explanation = "Classified as: " \o Join(", ", categories)

(***************************************************************************)
(* The claims about the answer of /query, its failures and /upload.        *)
(***************************************************************************)
\* the concepts of the query that are categories of a response entry, in the
\* order of the query's concepts
Overlap(entry) ==
  SelectSeq(query_analysis.extracted_concepts,
            LAMBDA concept : concept \in Range(entry.business_categories))

MatchesForm(reason) == StartsAt(reason, "Matches ", 0)
ContainsForm(reason) == StartsAt(reason, "Contains ", 0)
TextForm(reason) == StartsAt(reason, "Text similarity match with your query (content: ", 0)

\* C21: the relevance reason of each returned hit names exactly the query
\* concepts that are categories of the document, and the query's primary
\* category, when there is such a concept; else the first two categories of
\* the document when it has any; else it quotes the first 50 characters of
\* the row text.  Exactly one of the three forms is produced.
RelevanceReasonPrecedence ==
  pc = "done" =>
    \A i \in 1..Len(response.results) :
      LET entry == response.results[i]
          reason == entry.relevance_reason
          categories == entry.business_categories
      IN  /\ Cardinality({ form \in {"matches", "contains", "text"} :
                             \/ form = "matches" /\ MatchesForm(reason)
                             \/ form = "contains" /\ ContainsForm(reason)
                             \/ form = "text" /\ TextForm(reason) }) = 1
          /\ IF Overlap(entry) # <<>>
             THEN reason = "Matches " \o Join(", ", Overlap(entry)) \o " concepts from your "
                           \o response.query_analysis.query_type \o " query"
             ELSE IF categories # <<>>
             THEN reason = "Contains "
                           \o Join(", ", SubSeq(categories, 1, Min(2, Len(categories))))
                           \o " data relevant to your search"
             ELSE reason = "Text similarity match with your query (content: "
                           \o SubSeq(entry.row_text, 1, Min(50, Len(entry.row_text))) \o "...)"

\* a returned row has the categories cost and currency, and cost is a concept
\* of the query: the reason is of the first form
RelevanceReasonWitness ==
  /\ pc = "done"
  /\ \E i \in 1..Len(response.results) :
       /\ response.results[i].business_categories = <<"cost", "currency">>
       /\ Overlap(response.results[i]) = <<"cost">>
       /\ response.results[i].relevance_reason = "Matches cost concepts from your conceptual query"

\* a returned row has three categories, none of them a concept of the query
RelevanceContainsFormReached ==
  /\ pc = "done"
  /\ \E j \in 1..Len(response.results) :
       /\ Len(response.results[j].business_categories) = 3
       /\ response.results[j].relevance_reason
            = "Contains liquidity, currency data relevant to your search"

\* a row without categories whose text is longer than 50 characters is returned
RelevanceTextFormReached ==
  /\ pc = "done"
  /\ \E n \in 1..Len(response.results) :
       /\ Len(response.results[n].row_text) > 50
       /\ response.results[n].relevance_reason
            = "Text similarity match with your query (content: Item: rent for the warehouse on the north side, No...)"

\* a stored payload that is not what json.dumps writes of a list or dict
Malformed(payload) == payload[1] # "json"

\* the hit with its malformed payloads replaced by those of empty metadata
WithEmptyMetadata(hit) ==
  LET metadata == hit.doc.metadata
  IN  [hit EXCEPT
         !.doc.metadata.categories_json =
            IF Malformed(metadata.categories_json) THEN json_dumps(<<>>) ELSE @,
         !.doc.metadata.column_types_json =
            IF Malformed(metadata.column_types_json) THEN json_dumps(<<>>) ELSE @]

Repaired(results) == [i \in 1..Len(results) |-> WithEmptyMetadata(results[i])]

Aggregated == pc \in {"done", "failed"} /\ Len(calls) = Len(Searched)

\* C22: a hit whose stored category or column-type payload is malformed counts
\* as a hit with no category and no column type: the query succeeds, and its
\* response is the one it gives when every malformed payload is replaced by
\* the payload of empty metadata.
MalformedMetadataDegradesToEmpty ==
  Aggregated =>
    /\ status_code = 200
    /\ response = FormatResponse(FinalResults(Repaired(all_results), query_analysis, k),
                                 query_analysis, question)

\* the index answers with a row whose categories payload is the JSON text of
\* a number, and the request ends with a 500
MalformedMetadataFailsWitness ==
  /\ Aggregated
  /\ \E i \in 1..Len(all_results) : DecodesToNumber(all_results[i].doc.metadata.categories_json)
  /\ status_code = 500
  /\ response = <<>>

\* payloads that are not JSON do degrade to empty metadata
UndecodableMetadataDegradesToEmpty ==
  (/\ Aggregated
   /\ \A i \in 1..Len(all_results) : ~DecodesToNumber(all_results[i].doc.metadata.categories_json))
  => /\ status_code = 200
     /\ response = FormatResponse(FinalResults(Repaired(all_results), query_analysis, k),
                                  query_analysis, question)

\* a row whose payloads are not JSON is returned, with no category
UndecodableMetadataWitness ==
  /\ pc = "done"
  /\ \E i \in 1..Len(final_results) :
       /\ JSONDecodeError(final_results[i].doc.metadata.categories_json)
       /\ response.results[i].business_categories = <<>>
       /\ response.results[i].column_types = <<>>

\* a row whose categories decode to a number does not fail a request that
\* has no category filter and cuts the row off
NumberPayloadCutOffWitness ==
  /\ pc = "done"
  /\ \E i \in 1..Len(all_results) : DecodesToNumber(all_results[i].doc.metadata.categories_json)

\* the request ended because load_vectorstore or a search call raised
IndexFailed == pc = "failed" /\ detail \in {"vectorstore error", "search error"}

\* the request ends in a 500 with the failure's message and no result; a
\* failed load is followed by no search call, a failed search call is the
\* last call of the request
IndexFailureEndsRequest ==
  IndexFailed =>
    /\ status_code = 500
    /\ response = <<>>
    /\ final_results = <<>>
    /\ detail = "vectorstore error" => calls = <<>>
    /\ detail = "search error" => calls # <<>> /\ Len(calls) <= Len(Searched)
    /\ \A i \in 1..Len(calls) : calls[i].search_term = Searched[i]

\* C23: when loading the index or a search call fails, the request ends with
\* an error that carries the failure's message and returns no result list;
\* the failed call is not retried and no call follows it, each term being
\* searched at most once in the request.
IndexFailureSearchesEachTermOnce ==
  IndexFailed =>
    /\ IndexFailureEndsRequest
    /\ \A i, j \in 1..Len(calls) : i # j => calls[i].search_term # calls[j].search_term

\* the second search call fails, and its term is the term of the first call
IndexFailureRepeatedTermWitness ==
  /\ IndexFailed
  /\ detail = "search error"
  /\ Len(calls) = 2
  /\ calls[1].search_term = calls[2].search_term

\* no call is made once the request has failed
NoCallAfterFailure == [][pc = "failed" => calls' = calls /\ pc' = "failed"]_vars

\* the ways all_results can be the hit lists of two calls, one after the
\* other: the lengths of the first list (a call with k * 2 >= 0 returns at
\* most k * 2 hits)
CallSplits ==
  { m \in 0..Len(all_results) :
      k * 2 >= 0 => m <= k * 2 /\ Len(all_results) - m <= k * 2 }

\* all_results had the two hit lists arrived in the other order
Swapped(m) == SubSeq(all_results, m + 1, Len(all_results)) \o SubSeq(all_results, 1, m)

\* same row indices, same scores, same order
SameRanking(a, b) ==
  /\ Len(a) = Len(b)
  /\ \A i \in 1..Len(a) : RowOf(a[i]) = RowOf(b[i]) /\ a[i].score = b[i].score

\* C24 as stated: the final result list does not depend on the order in
\* which the hit lists of the search calls are produced and concatenated:
\* swapping the lists of the two calls gives the same rows with the same
\* scores in the same order, also when distinct rows have the same score.
MergeIsOrderIndependent ==
  (pc = "done" /\ Len(calls) = 2) =>
    \A m \in CallSplits :
      SameRanking(final_results, FinalResults(Swapped(m), query_analysis, k))

\* the first call found row 1 and the second row 0, with the same score: row
\* 1 is ranked first, and had the lists arrived in the other order row 0
\* would be
MergeOrderWitness ==
  /\ pc = "done"
  /\ Len(calls) = 2
  /\ k = 2
  /\ Len(all_results) = 2
  /\ 1 \in CallSplits
  /\ RowOf(all_results[1]) = 1 /\ RowOf(all_results[2]) = 0
  /\ all_results[1].score = all_results[2].score
  /\ Len(final_results) = 2
  /\ RowOf(final_results[1]) = 1
  /\ RowOf(FinalResults(Swapped(1), query_analysis, k)[1]) = 0

\* C24: when no two different hits have the same score, the final result
\* list is the same whichever order the hit lists of the two calls arrive
\* in; among hits of equal score the merge keeps the order of arrival (the
\* sort is stable and the first hit seen stands for its row).
MergeIsOrderIndependentWithoutTies ==
  (/\ pc = "done"
   /\ Len(calls) = 2
   /\ \A i, j \in 1..Len(all_results) :
        all_results[i] # all_results[j] => all_results[i].score # all_results[j].score)
  => \A m \in CallSplits : final_results = FinalResults(Swapped(m), query_analysis, k)

\* two calls return the same row with different scores, in either order
MergeWithoutTiesReached ==
  /\ pc = "done"
  /\ Len(calls) = 2
  /\ Len(all_results) = 2
  /\ 1 \in CallSplits
  /\ RowOf(all_results[1]) = RowOf(all_results[2])
  /\ all_results[1].score > all_results[2].score
  /\ Len(final_results) = 1

(***************************************************************************)
(* Concurrent /query requests.  `requests` maps a request in flight to the *)
(* state of its handler (its own locals and answer); `query_processor` is  *)
(* the one object of main.py that every handler calls.  A step is a step   *)
(* of one handler; the steps of different handlers interleave freely.      *)
(***************************************************************************)
RequestIds == { "first", "second" }

ConcurrentQuestions == { "compare", "find payments", "x" }

\* what the index answers in the concurrent runs: row 1, with one score
ConcurrentHits == { hit \in Hits : RowOf(hit) = 1 /\ hit.score = 1 }

\* the hits one request receives over all its calls
MaxConcurrentHits == 1

\* the handler's state when the request arrives
Arrived(query_question, query_k) ==
  [pc |-> "received", question |-> query_question, k |-> query_k, sanitized_question |-> "",
   query_analysis |-> <<>>, search_terms |-> <<>>, calls |-> <<>>, all_results |-> <<>>,
   response |-> <<>>, status_code |-> 0, detail |-> ""]

\* raise HTTPException(status_code=500, detail=str(e)) in the handler of one request
Failed(s, message) ==
  [s EXCEPT !.pc = "failed", !.status_code = 500, !.detail = message]

\* everything but the requests in flight and the processor
single == <<pc, request, df, upload, locals, calls, response, status_code, detail, returned>>

\* sanitize_query_input and load_vectorstore of request r
Accept(r) ==
  LET s == requests[r]
  IN  /\ s.pc = "received"
      /\ ~sanitize_query_input(s.question).raised
      /\ requests' = [requests EXCEPT ![r] =
                        [s EXCEPT !.pc = "loaded",
                                  !.sanitized_question = sanitize_query_input(s.question).value]]
      /\ UNCHANGED <<single, query_processor>>

\* sanitize_query_input of request r raises
Reject(r) ==
  LET s == requests[r]
  IN  /\ s.pc = "received"
      /\ sanitize_query_input(s.question).raised
      /\ requests' = [requests EXCEPT ![r] =
                        Failed(s, "400: " \o sanitize_query_input(s.question).detail)]
      /\ UNCHANGED <<single, query_processor>>

\* query_processor.process_query(sanitized_question) of request r, on the
\* shared processor
Process(r) ==
  LET s == requests[r]
  IN  /\ s.pc = "loaded"
      /\ \E analysis \in QueryProcessor_process_query(query_processor, s.sanitized_question) :
           requests' = [requests EXCEPT ![r] =
                          [s EXCEPT !.pc = "searching",
                                    !.query_analysis = analysis,
                                    !.search_terms = SearchTerms(s.sanitized_question, analysis)]]
      /\ query_processor' = self_after_process_query(query_processor, s.sanitized_question)
      /\ UNCHANGED single

\* one iteration of the search loop of request r
SearchCall(r) ==
  LET s == requests[r]
      terms == PySlice(s.search_terms, 3)
  IN  /\ s.pc = "searching"
      /\ Len(s.calls) < Len(terms)
      /\ \E m \in 0..Min(s.k * 2, MaxConcurrentHits - Len(s.all_results)) :
           \E results \in [1..m -> ConcurrentHits] :
             requests' = [requests EXCEPT ![r] =
                            [s EXCEPT !.all_results = s.all_results \o results,
                                      !.calls = Append(s.calls, [search_term |-> terms[Len(s.calls) + 1],
                                                                 k |-> s.k * 2])]]
      /\ UNCHANGED <<single, query_processor>>

\* similarity_search_with_score of request r raises
SearchCallFails(r) ==
  LET s == requests[r]
      terms == PySlice(s.search_terms, 3)
  IN  /\ s.pc = "searching"
      /\ Len(s.calls) < Len(terms)
      /\ requests' = [requests EXCEPT ![r] =
                        Failed([s EXCEPT !.calls = Append(s.calls, [search_term |-> terms[Len(s.calls) + 1],
                                                                    k |-> s.k * 2])],
                               "search error")]
      /\ UNCHANGED <<single, query_processor>>

\* the rest of the handler of request r, from the end of the search loop to
\* the return
Answer(r) ==
  LET s == requests[r]
  IN  /\ s.pc = "searching"
      /\ Len(s.calls) = Len(PySlice(s.search_terms, 3))
      /\ requests' = [requests EXCEPT ![r] =
                        [s EXCEPT !.pc = "done",
                                  !.status_code = 200,
                                  !.response = FormatResponse(FinalResults(s.all_results, s.query_analysis, s.k),
                                                              s.query_analysis, s.question)]]
      /\ UNCHANGED <<single, query_processor>>

\* two requests arrive
InitConcurrent ==
  /\ pc = "serving"
  /\ question = ""
  /\ k = 0
  /\ sanitized_question = ""
  /\ query_analysis = <<>>
  /\ search_terms = <<>>
  /\ calls = <<>>
  /\ all_results = <<>>
  /\ unique_results = <<>>
  /\ filtered_results = <<>>
  /\ final_results = <<>>
  /\ response = <<>>
  /\ status_code = 0
  /\ detail = ""
  /\ returned = <<>>
  /\ df = <<>>
  /\ file = <<>>
  /\ docs = <<>>
  /\ query_processor = QueryProcessor
  /\ requests \in [RequestIds -> { Arrived(q, 1) : q \in ConcurrentQuestions }]

NextConcurrent ==
  \E r \in RequestIds :
    \/ Accept(r)
    \/ Reject(r)
    \/ Process(r)
    \/ SearchCall(r)
    \/ SearchCallFails(r)
    \/ Answer(r)

SpecConcurrent == InitConcurrent /\ [][NextConcurrent]_vars

(***************************************************************************)
(* The claims about concurrent requests.                                   *)
(***************************************************************************)
\* what sanitize_query_input gives a handler that runs alone, for each question
SanitizedAlone == [q \in ConcurrentQuestions |-> sanitize_query_input(q)]

\* what process_query returns for each accepted question to a handler that
\* runs alone, on a processor as constructed
AnalysesAlone ==
  [q \in { q \in ConcurrentQuestions : ~SanitizedAlone[q].raised } |->
     process_query(SanitizedAlone[q].value)]

\* the answers the handler can give to the request of s when it runs alone,
\* on a processor as constructed, and the index answers what it answered s
AnswersAlone(s) ==
  LET sanitized == SanitizedAlone[s.question]
  IN  IF sanitized.raised
      THEN { [status_code |-> 500, detail |-> "400: " \o sanitized.detail, response |-> <<>>] }
      ELSE { [status_code |-> 200, detail |-> "",
              response |-> FormatResponse(FinalResults(s.all_results, analysis, s.k),
                                          analysis, s.question)]
             : analysis \in { a \in AnalysesAlone[s.question] :
                                [i \in 1..Len(s.calls) |-> s.calls[i].search_term]
                                  = PySlice(SearchTerms(sanitized.value, a), 3) } }
           \cup { [status_code |-> 500, detail |-> "search error", response |-> <<>>] }

\* C25: whatever the interleaving of the steps of concurrent /query
\* requests, the answer of each request (status, detail and response body)
\* is an answer the same request gets when it runs alone and the index
\* answers its calls the same way.
ConcurrentAnswerIsAnswerAlone ==
  \A r \in RequestIds :
    requests[r].pc \in {"done", "failed"} =>
      [status_code |-> requests[r].status_code, detail |-> requests[r].detail,
       response |-> requests[r].response] \in AnswersAlone(requests[r])

\* process_query modifies no state shared between requests
ProcessorIsNeverModified == query_processor = QueryProcessor

\* both requests ask "compare"; the second was processed after the first
\* had finished with the processor, and both are answered as comparative
ConcurrentAnswersWitness ==
  /\ \A r \in RequestIds :
       /\ requests[r].question = "compare"
       /\ requests[r].pc = "done"
       /\ requests[r].response.query_analysis.query_type = "comparative"
  /\ requests["first"].response.total_results_found = 1
  /\ requests["second"].response.total_results_found = 0

(***************************************************************************)
(* The claims about rejected queries and about /upload.                    *)
(***************************************************************************)
\* the handler failed at sanitize_query_input: nothing after it was assigned
\* (an accepted question has at least 2 characters)
SanitizerRejected == pc = "failed" /\ sanitized_question = ""

\* the detail messages of sanitize_query_input
SanitizerDetails ==
  { "Query text is required", "Query too long. Maximum length is 500 characters",
    "Query contains potentially unsafe content", "Query must be at least 2 characters long" }

\* C26: a query that sanitize_query_input rejects makes /query fail with
\* status 400 and the sanitizer's detail message, and neither the query
\* processor nor the index is called for it.
RejectedQueryFailsWith400 ==
  SanitizerRejected =>
    /\ status_code = 400
    /\ detail \in SanitizerDetails
    /\ query_analysis = <<>>
    /\ calls = <<>>

\* "drop table costs" is rejected as unsafe, and the answer is a 500
RejectedQueryFailsWith500Witness ==
  /\ SanitizerRejected
  /\ question = "drop table costs"
  /\ status_code = 500
  /\ detail = "400: Query contains potentially unsafe content"
  /\ calls = <<>>

\* what does hold of a rejected query: the processor and the index are not
\* called, and the answer is a 500 whose detail is the str of the 400
RejectedQueryReachesNoProcessor ==
  SanitizerRejected =>
    /\ status_code = 500
    /\ \E message \in SanitizerDetails : detail = "400: " \o message
    /\ query_analysis = <<>>
    /\ search_terms = <<>>
    /\ calls = <<>>
    /\ response = <<>>

\* a question of one character is rejected as too short
ShortQueryRejectionReached ==
  /\ SanitizerRejected
  /\ question = "x"
  /\ detail = "400: Query must be at least 2 characters long"

(***************************************************************************)
(* main.py: upload_csv, and utils.py: validate_csv_file.  An uploaded file *)
(* is its filename, its size in bytes, whether its bytes decode as UTF-8,  *)
(* and its text (for a file over the size limit the text is cut short: the *)
(* validator raises before it looks at it).  pandas and the index are      *)
(* outside the repository: read_csv gives some dataframe or raises, and    *)
(* get_vectorstore stores the documents or raises.                          *)
(***************************************************************************)
MAX_FILE_SIZE == 10 * 1024 * 1024

dangerous_chars == { "<", ">", ":", "\"", "|", "?", "*", "\\", "/" }

\* raise HTTPException(status_code=..., detail=...)
HTTPException(code, message) == [raised |-> TRUE, status_code |-> code, detail |-> message]

\* any other exception, with its message
Exception(message) == [raised |-> TRUE, message |-> message]

\* str(e)
str_exception(e) ==
  IF "status_code" \in DOMAIN e THEN str_int(e.status_code) \o ": " \o e.detail ELSE e.message

\* s.count(c) for a character c
CountOf(s, c) == Cardinality({ i \in 1..Len(s) : CharAt(s, i) = c })

\* s.split('\n')[0]
FirstLine(s) ==
  LET breaks == { i \in 1..Len(s) : CharAt(s, i) = "\n" }
  IN  IF breaks = {} THEN s ELSE SubSeq(s, 1, Least(breaks) - 1)

\* validate_csv_file(file): the HTTPException it raises, or no exception.
\* The two checks of step 4 raise inside the try block whose `except
\* Exception` replaces them by "Invalid CSV file format"; the MIME check of
\* step 3 raises inside a try block whose `except Exception` passes, so it
\* rejects nothing.
validate_csv_file(f) ==
  LET content_str == Prefix(f.contents, 1000)
      lines == Min(5, 1 + CountOf(content_str, "\n"))
      first_line_columns == 1 + CountOf(FirstLine(content_str), ",")
  IN  IF f.size > MAX_FILE_SIZE THEN HTTPException(413, "File too large. Maximum size is 10MB")
      ELSE IF f.filename = "" THEN HTTPException(400, "Filename is required")
      ELSE IF ~EndsWith(Lower(f.filename), ".csv")
      THEN HTTPException(400, "Only CSV files are supported")
      ELSE IF Chars(f.filename) \cap dangerous_chars # {}
      THEN HTTPException(400, "Filename contains invalid characters")
      ELSE IF ~f.utf8 THEN HTTPException(400, "File encoding not supported. Please use UTF-8")
      ELSE IF lines < 2 THEN HTTPException(400, "Invalid CSV file format")
      ELSE IF first_line_columns < 1 \/ first_line_columns > 100
      THEN HTTPException(400, "Invalid CSV file format")
      ELSE [raised |-> FALSE]

\* the except clause of query_spreadsheet: every exception becomes a 500
query_spreadsheet_except(e) == HTTPException(500, str_exception(e))

\* the except clauses of upload_csv: an HTTPException is re-raised, any
\* other exception becomes a 500
upload_csv_except(e) ==
  IF "status_code" \in DOMAIN e THEN e ELSE HTTPException(500, str_exception(e))

UploadedFile(filename, size, utf8, contents) ==
  [filename |-> filename, size |-> size, utf8 |-> utf8, contents |-> contents]

\* the files of the upload requests
Files ==
  { UploadedFile("costs.csv", 26, TRUE, "Item,Units\nrent,5\nsales,7"),
    UploadedFile("COSTS.CSV", 27, TRUE, "Item,Units\nrent,1\nsales,1200\n"),
    UploadedFile("ragged.csv", 18, TRUE, "Item,Units\nrent,5,9\nsales"),
    UploadedFile("big.csv", MAX_FILE_SIZE + 1, TRUE, "Item,Units\nrent,5\n"),
    UploadedFile("", 26, TRUE, "Item,Units\nrent,5\nsales,7"),
    UploadedFile("costs.xlsx", 26, TRUE, "Item,Units\nrent,5\nsales,7"),
    UploadedFile("a:b.csv", 26, TRUE, "Item,Units\nrent,5\nsales,7"),
    UploadedFile("latin1.csv", 26, FALSE, ""),
    UploadedFile("header.csv", 10, TRUE, "Item,Units"),
    UploadedFile("wide.csv", 104, TRUE, Repeat(",", 100) \o "\n1,2") }

\* the dataframes read_csv makes of the accepted files
UploadSheets ==
  { <<LabelColumn, numeric>> :
      numeric \in { c \in NumericColumns : c.name \in {"Units", "Percent Done"} } }

\* the exception leaves upload_csv through its except clauses
UploadFails(e) ==
  /\ pc' = "failed"
  /\ response' = <<>>
  /\ status_code' = upload_csv_except(e).status_code
  /\ detail' = upload_csv_except(e).detail

\* await validate_csv_file(file) returns
ValidateCsvFile ==
  /\ pc = "uploaded"
  /\ ~validate_csv_file(file).raised
  /\ pc' = "validated"
  /\ UNCHANGED <<request, df, shared, upload, locals, calls, response, status_code, detail, returned>>

\* await validate_csv_file(file) raises
ValidateCsvFileRejects ==
  /\ pc = "uploaded"
  /\ validate_csv_file(file).raised
  /\ UploadFails(validate_csv_file(file))
  /\ UNCHANGED <<request, df, shared, upload, locals, calls, returned>>

\* df = pd.read_csv(io.StringIO(contents.decode("utf-8")))
ReadCsv ==
  /\ pc = "validated"
  /\ df' \in UploadSheets
  /\ pc' = "parsed"
  /\ UNCHANGED <<request, shared, upload, locals, calls, response, status_code, detail, returned>>

\* pd.read_csv raises
ReadCsvFails ==
  /\ pc = "validated"
  /\ UploadFails(Exception("Error tokenizing data"))
  /\ UNCHANGED <<request, df, shared, upload, locals, calls, returned>>

\* docs = dataframe_to_documents(df)
BuildDocuments ==
  /\ pc = "parsed"
  /\ docs' \in dataframe_to_documents(df)
  /\ pc' = "tagged"
  /\ UNCHANGED <<request, df, shared, file, locals, calls, response, status_code, detail, returned>>

\* df.head().to_dict(orient="records") is left out of the preview: the rows
\* are those of df
Preview(frame) ==
  [filename |-> file.filename,
   num_rows |-> Rows(frame),
   columns |-> [i \in 1..Len(frame) |-> frame[i].name]]

\* get_vectorstore(docs) stores the documents, and the handler returns
GetVectorstore ==
  /\ pc = "tagged"
  /\ calls' = Append(calls, [method |-> "get_vectorstore", docs |-> docs])
  /\ response' = Preview(df)
  /\ status_code' = 200
  /\ pc' = "done"
  /\ UNCHANGED <<request, df, shared, upload, locals, detail, returned>>

\* get_vectorstore(docs) raises
GetVectorstoreFails ==
  /\ pc = "tagged"
  /\ calls' = Append(calls, [method |-> "get_vectorstore", docs |-> docs])
  /\ UploadFails(Exception("index error"))
  /\ UNCHANGED <<request, df, shared, upload, locals, returned>>

\* a file arrives
InitUpload ==
  /\ pc = "uploaded"
  /\ question = ""
  /\ k = 0
  /\ sanitized_question = ""
  /\ query_analysis = <<>>
  /\ search_terms = <<>>
  /\ calls = <<>>
  /\ all_results = <<>>
  /\ unique_results = <<>>
  /\ filtered_results = <<>>
  /\ final_results = <<>>
  /\ response = <<>>
  /\ status_code = 0
  /\ detail = ""
  /\ returned = <<>>
  /\ df = <<>>
  /\ query_processor = QueryProcessor
  /\ requests = <<>>
  /\ file \in Files
  /\ docs = <<>>

NextUpload ==
  \/ ValidateCsvFile
  \/ ValidateCsvFileRejects
  \/ ReadCsv
  \/ ReadCsvFails
  \/ BuildDocuments
  \/ GetVectorstore
  \/ GetVectorstoreFails

SpecUpload == InitUpload /\ [][NextUpload]_vars

\* validate_csv_file rejected the file of this request
FileRejected == pc = "failed" /\ validate_csv_file(file).raised

\* C27: in /upload validation precedes indexing.  When validate_csv_file
\* rejects the file, no dataframe is read, no document is built and
\* get_vectorstore is not called, and the caller gets the validator's status
\* (400 or 413) and detail; documents are built and the index is called only
\* for a file the validator accepted; a failure after validation is answered
\* with status 500.
ValidationPrecedesIndexing ==
  /\ FileRejected =>
       /\ df = <<>> /\ docs = <<>> /\ calls = <<>>
       /\ status_code = validate_csv_file(file).status_code
       /\ status_code \in {400, 413}
       /\ detail = validate_csv_file(file).detail
  /\ (df # <<>> \/ docs # <<>> \/ calls # <<>>) => ~validate_csv_file(file).raised
  /\ (pc = "failed" /\ ~validate_csv_file(file).raised) => status_code = 500

\* the file over 10 MB is rejected with 413 and nothing was built or stored
OversizedFileRejectedWitness ==
  /\ FileRejected
  /\ file.filename = "big.csv"
  /\ status_code = 413
  /\ docs = <<>>
  /\ calls = <<>>

\* an accepted file whose documents the index refuses: a 500 after the call
IndexingFailsAfterValidationWitness ==
  /\ pc = "failed"
  /\ file.filename = "costs.csv"
  /\ Len(calls) = 1
  /\ Len(calls[1].docs) = 2
  /\ status_code = 500
  /\ detail = "index error"

\* a file with a header and no row is rejected with 400
HeaderOnlyFileRejectedReached ==
  /\ FileRejected
  /\ file.filename = "header.csv"
  /\ status_code = 400
  /\ detail = "Invalid CSV file format"

(***************************************************************************)
(* The claim about an empty filter_categories, checked under SpecAgg.      *)
(***************************************************************************)
\* C28: when the processing result's filter_categories is empty, no
\* category filtering is applied: the final list is the first k entries of
\* the deduplicated, score-sorted hits, whatever the categories of the hits.
EmptyFilterIsFirstK ==
  (pc = "done" /\ FilterCategories = <<>>) =>
    /\ filtered_results = Ranked
    /\ final_results = FirstN(Ranked, k)

\* "find payments" has no function type, so its filter is empty: a hit
\* without categories is ranked before a hit with categories and both are
\* in the final list
EmptyFilterWitness ==
  /\ pc = "done"
  /\ question = "find payments"
  /\ FilterCategories = <<>>
  /\ k = 2
  /\ Len(final_results) = 2
  /\ DocCategories(final_results[1]) = <<>>
  /\ DocCategories(final_results[2]) # <<>>

\* the same, for the requests whose k is not negative
EmptyFilterIsFirstKNonNegative == k >= 0 => EmptyFilterIsFirstK

\* with k = -1 the final list is the ranked list without its last entry
EmptyFilterNegativeKReached ==
  /\ pc = "done"
  /\ FilterCategories = <<>>
  /\ k = -1
  /\ Len(Ranked) = 2
  /\ final_results = <<Ranked[1]>>

====
